---------------------------- MODULE Spec2Model ----------------------------
(***************************************************************************)
(* Clippi-Coach: the event detection, throttling and batching pipeline of  *)
(* EnhancedSlippiCoach (src/src/enhancedcoach.js) and the narration cache  *)
(* of provideLiveCommentary (src/src/liveCommentary.js).                   *)
(*                                                                         *)
(* Every handler of the coach runs to completion on the JavaScript event   *)
(* loop; the only suspension point is the await of provideLiveCommentary   *)
(* inside _processPendingEvents.  One action models one synchronous        *)
(* segment.  Handlers are written as operators from a world record (the    *)
(* fields of the coach object) to a world record, composed in the order    *)
(* the code runs them.                                                     *)
(***************************************************************************)
EXTENDS Integers, Sequences, FiniteSets, TLC

VARIABLES
  env,                    \* the input universe of the run (never changes)
  now,                    \* Date.now()
  gameByPath,             \* this.gameByPath: path -> {tracked, state}
  activeGames,            \* this.activeGames
  completedGames,         \* this.completedGames
  pendingEvents,          \* this.pendingEvents, keys in insertion order
  eventProcessorInterval, \* this.eventProcessorInterval is set
  timers,                 \* history: the intervals set and not yet cleared
  previousFrames,         \* this.previousFrames
  inFlight,               \* _processPendingEvents calls suspended at await
  isMonitoring,           \* this.isMonitoring: the watcher delivers file events
  commentaryCache,        \* commentaryCache of liveCommentary.js, in Map order
  admitted,               \* history: every event pushed by _addPendingEvent
  narrated,               \* history: every call of provideLiveCommentary
  analyses,               \* history: every call of _generateGameAnalysis
  observed,               \* history: the stock values _checkStockChanges was shown
  lastOp                  \* history: the handler that ran last, with its input

vars == <<env, now, gameByPath, activeGames, completedGames, pendingEvents,
          eventProcessorInterval, timers, previousFrames, inFlight, isMonitoring,
          commentaryCache, admitted, narrated, analyses, observed, lastOp>>

----------------------------------------------------------------------------
(* Program constants *)

STOCK_LOSS_threshold == 1000
SIGNIFICANT_COMBO_threshold == 1500
MINOR_COMBO_threshold == 2500
NEUTRAL_EXCHANGE_threshold == 5000
FRAME_UPDATE_threshold == 10000

EventTypes ==
  {"STOCK_LOSS", "SIGNIFICANT_COMBO", "MINOR_COMBO", "NEUTRAL_EXCHANGE", "FRAME_UPDATE"}

\* EVENT_PRIORITIES[eventType].threshold
threshold(eventType) ==
  CASE eventType = "STOCK_LOSS" -> STOCK_LOSS_threshold
    [] eventType = "SIGNIFICANT_COMBO" -> SIGNIFICANT_COMBO_threshold
    [] eventType = "MINOR_COMBO" -> MINOR_COMBO_threshold
    [] eventType = "NEUTRAL_EXCHANGE" -> NEUTRAL_EXCHANGE_threshold
    [] eventType = "FRAME_UPDATE" -> FRAME_UPDATE_threshold

TECH_START == 199
TECH_ROLL_LEFT == 201
TECH_ROLL_RIGHT == 202
FIRE_FOX_AIR == 346
UP_B_AIR == 348
GRAB == 212
DASH == 20
SHIELD == 179
NAIR == 65
FAIR == 66
BAIR == 67
UAIR == 68
DAIR == 69
FALL == 29

PENDING_EVENTS_LIMIT == 3
CACHE_EXPIRY == 30000
INITIAL_STOCKS == 4
INITIAL_FRAME == -999
HEARTBEAT_FRAMES == 300
SIGNIFICANT_MOVES == 4
MIN_COMBO_MOVES == 2
LRAS == 7
MAX_CACHE_SIZE == 100

----------------------------------------------------------------------------
(* Bounds of the model *)

MaxInFlight == 2        \* _processPendingEvents calls suspended at once
MaxEvents == 6          \* events admitted in one run
MaxClock == 10000       \* last clock value, relative to the first
MaxCalls == 2           \* narration requests of a caller other than the coach
MaxDamage == 420        \* largest damageDealt rated, in percent
MaxStocksLost == 2      \* largest stocksLost rated

----------------------------------------------------------------------------
(* Values *)

Min(a, b) == IF a < b THEN a ELSE b
Max(a, b) == IF a > b THEN a ELSE b

RECURSIVE SumSeq(_)
SumSeq(s) == IF s = <<>> THEN 0 ELSE Head(s) + SumSeq(Tail(s))

NoFrame == [present |-> FALSE, frame |-> 0, players |-> <<>>]

\* The gameState object created by _handleFileChange for a new file.
FreshGameState ==
  [settings |-> FALSE,
   latestFrameProcessed |-> INITIAL_FRAME,
   players |-> <<>>,
   stockEvents |-> <<>>,
   comboEvents |-> <<>>,
   lastStockCounts |-> [i \in 0..3 |-> INITIAL_STOCKS],
   lastEventTimes |-> [t \in EventTypes |-> 0]]

Untracked == [tracked |-> FALSE, state |-> FreshGameState]

\* One shape for every event object pushed to the pending queue; a field an
\* event type does not carry holds -1, "" or <<>>.
BlankEvent ==
  [id |-> 0, type |-> "", subType |-> "", playerIndex |-> -1, frame |-> 0,
   moves |-> -1, damage |-> -1, stocksLost |-> -1, remainingStocks |-> -1,
   detail |-> "", endType |-> "", lrasQuitter |-> -1, players |-> <<>>,
   matchup |-> <<>>, startFrame |-> -1, endFrame |-> -1]

\* What the history holds of a player's stocks before any frame.
NothingObserved == [min |-> INITIAL_STOCKS, last |-> INITIAL_STOCKS, lost |-> 0]

\* The fields of the coach object, as one record.
World ==
  [now |-> now, gameByPath |-> gameByPath, activeGames |-> activeGames,
   completedGames |-> completedGames, pendingEvents |-> pendingEvents,
   eventProcessorInterval |-> eventProcessorInterval, timers |-> timers,
   previousFrames |-> previousFrames, commentaryCache |-> commentaryCache,
   admitted |-> admitted, narrated |-> narrated, analyses |-> analyses,
   observed |-> observed, threw |-> FALSE]

gameState(w, filePath) == w.gameByPath[filePath].state

SetState(w, filePath, st) ==
  [w EXCEPT !.gameByPath[filePath].state = st]

\* Position of filePath among the keys of this.pendingEvents, 0 when absent.
KeyIndex(pe, filePath) ==
  IF \E i \in 1..Len(pe) : pe[i].path = filePath
  THEN CHOOSE i \in 1..Len(pe) : pe[i].path = filePath
  ELSE 0

\* this.pendingEvents[filePath] || []
QueueOf(pe, filePath) ==
  IF KeyIndex(pe, filePath) = 0 THEN <<>> ELSE pe[KeyIndex(pe, filePath)].events

\* delete this.pendingEvents[filePath]
DeleteKey(pe, filePath) ==
  SelectSeq(pe, LAMBDA e : e.path # filePath)

\* History: the events of a queue are marked as pending at a teardown.
MarkTornDown(history, events) ==
  [k \in 1..Len(history) |->
     IF \E m \in 1..Len(events) : events[m].id = k
     THEN [history[k] EXCEPT !.tornDown = TRUE]
     ELSE history[k]]

----------------------------------------------------------------------------
(* Event admission: _canTriggerEventType, _addPendingEvent *)

\* _canTriggerEventType without the update of the last-triggered time.
canTriggerEventTypeUnrecorded(w, eventType, filePath) ==
  LET lastTriggered == gameState(w, filePath).lastEventTimes[eventType]
  IN [ok |-> ~(w.now - lastTriggered < threshold(eventType)), w |-> w]

\* _canTriggerEventType with one last-triggered time for all event types.
canTriggerEventTypeShared(w, eventType, filePath) ==
  LET lastTriggered == gameState(w, filePath).lastEventTimes[eventType]
  IN IF w.now - lastTriggered < threshold(eventType)
     THEN [ok |-> FALSE, w |-> w]
     ELSE [ok |-> TRUE,
           w |-> [w EXCEPT !.gameByPath[filePath].state.lastEventTimes =
                              [t \in EventTypes |-> w.now]]]

\* _canTriggerEventType with the last-triggered time of the event type read
\* over all matches.
canTriggerEventTypeGlobal(w, eventType, filePath) ==
  IF \E p \in DOMAIN w.gameByPath :
       w.now - w.gameByPath[p].state.lastEventTimes[eventType] < threshold(eventType)
  THEN [ok |-> FALSE, w |-> w]
  ELSE [ok |-> TRUE,
        w |-> [w EXCEPT !.gameByPath[filePath].state.lastEventTimes[eventType] = w.now]]

\* _canTriggerEventType: the answer, and the coach with the last-triggered
\* time of (filePath, eventType) set to now when the answer is yes.
canTriggerEventType(w, eventType, filePath) ==
  LET lastTriggered == gameState(w, filePath).lastEventTimes[eventType]
  IN IF w.now - lastTriggered < threshold(eventType)
     THEN [ok |-> FALSE, w |-> w]
     ELSE [ok |-> TRUE,
           w |-> [w EXCEPT !.gameByPath[filePath].state.lastEventTimes[eventType] = w.now]]

\* _addPendingEvent with unshift in place of push.
addPendingEventFront(w, filePath, event, eventClass) ==
  LET pe == w.pendingEvents
      pe1 == IF KeyIndex(pe, filePath) = 0
             THEN Append(pe, [path |-> filePath, events |-> <<>>])
             ELSE pe
      k == KeyIndex(pe1, filePath)
      ev == [event EXCEPT !.id = Len(w.admitted) + 1]
  IN [w EXCEPT
        !.pendingEvents = [pe1 EXCEPT ![k].events = <<ev>> \o @],
        !.eventProcessorInterval = TRUE,
        !.timers = IF w.eventProcessorInterval THEN @ ELSE @ + 1,
        !.admitted = Append(@, [path |-> filePath, class |-> eventClass,
                                time |-> w.now, event |-> ev, tornDown |-> FALSE])]

\* _addPendingEvent with a setInterval for every event.
addPendingEventNewTimer(w, filePath, event, eventClass) ==
  LET pe == w.pendingEvents
      pe1 == IF KeyIndex(pe, filePath) = 0
             THEN Append(pe, [path |-> filePath, events |-> <<>>])
             ELSE pe
      k == KeyIndex(pe1, filePath)
      ev == [event EXCEPT !.id = Len(w.admitted) + 1]
  IN [w EXCEPT
        !.pendingEvents = [pe1 EXCEPT ![k].events = Append(@, ev)],
        !.eventProcessorInterval = TRUE,
        !.timers = @ + 1,
        !.admitted = Append(@, [path |-> filePath, class |-> eventClass,
                                time |-> w.now, event |-> ev, tornDown |-> FALSE])]

\* _addPendingEvent: push to the queue of filePath (created when missing) and
\* start the interval timer when none is running.  eventClass is the throttle
\* class the caller asked admission for ("LIFECYCLE" for start and end).
addPendingEvent(w, filePath, event, eventClass) ==
  LET pe == w.pendingEvents
      pe1 == IF KeyIndex(pe, filePath) = 0
             THEN Append(pe, [path |-> filePath, events |-> <<>>])
             ELSE pe
      k == KeyIndex(pe1, filePath)
      ev == [event EXCEPT !.id = Len(w.admitted) + 1]
  IN [w EXCEPT
        !.pendingEvents = [pe1 EXCEPT ![k].events = Append(@, ev)],
        !.eventProcessorInterval = TRUE,
        !.timers = IF w.eventProcessorInterval THEN @ ELSE @ + 1,
        !.admitted = Append(@, [path |-> filePath, class |-> eventClass,
                                time |-> w.now, event |-> ev, tornDown |-> FALSE])]

----------------------------------------------------------------------------
(* Match start *)

\* _handleGameStart
handleGameStart(w, filePath, settings) ==
  LET w1 == [w EXCEPT !.activeGames = @ \cup {filePath}]
      w2 == addPendingEvent(w1, filePath,
              [BlankEvent EXCEPT !.type = "gameStart",
                                 !.matchup = settings.players,
                                 !.frame = 0],
              "LIFECYCLE")
      st == gameState(w2, filePath)
      w3 == SetState(w2, filePath,
              [st EXCEPT !.stockEvents = <<>>,
                         !.comboEvents = <<>>,
                         !.lastStockCounts = [i \in 0..3 |-> INITIAL_STOCKS],
                         !.lastEventTimes = [t \in EventTypes |-> 0]])
  IN [w3 EXCEPT !.previousFrames[filePath] = NoFrame,
                !.observed[filePath] = [i \in 0..3 |-> NothingObserved]]

----------------------------------------------------------------------------
(* Action-state transitions *)

\* frame.players[playerIndex], "null" when the array has no such entry
PlayerAt(frame, playerIndex) ==
  IF playerIndex + 1 \in 1..Len(frame.players)
  THEN frame.players[playerIndex + 1]
  ELSE [kind |-> "null", stocksRemaining |-> 0, percent |-> 0, actionStateId |-> 0]

Aerials == {NAIR, FAIR, BAIR, UAIR, DAIR}

aerialMap(state) ==
  CASE state = NAIR -> "neutral air"
    [] state = FAIR -> "forward air"
    [] state = BAIR -> "back air"
    [] state = UAIR -> "up air"
    [] state = DAIR -> "down air"
    [] OTHER -> "aerial"

\* One NEUTRAL_EXCHANGE candidate pushed without asking admission.
neutralExchangeAlways(w, filePath, event) ==
  addPendingEvent(w, filePath, event, "NEUTRAL_EXCHANGE")

\* One NEUTRAL_EXCHANGE candidate: ask admission, push when admitted.
neutralExchange(w, filePath, event) ==
  LET r == canTriggerEventType(w, "NEUTRAL_EXCHANGE", filePath)
  IN IF r.ok THEN addPendingEvent(r.w, filePath, event, "NEUTRAL_EXCHANGE") ELSE r.w

\* The body of the forEach without the test that the state changed.
detectPlayerUnchanged(w, filePath, currentFrame, playerIndex, prevState, currentState) ==
  LET base == [BlankEvent EXCEPT !.type = "actionState",
                                 !.playerIndex = playerIndex,
                                 !.frame = currentFrame.frame]
      w1 == IF currentState \in {TECH_START, TECH_ROLL_LEFT, TECH_ROLL_RIGHT}
            THEN neutralExchange(w, filePath, [base EXCEPT !.subType = "tech"])
            ELSE w
      w2 == IF currentState = SHIELD \/ currentState = GRAB
            THEN neutralExchange(w1, filePath,
                   [base EXCEPT !.subType = IF currentState = SHIELD THEN "shield" ELSE "grab"])
            ELSE w1
      w3 == IF currentState \in {FIRE_FOX_AIR, UP_B_AIR}
            THEN neutralExchange(w2, filePath, [base EXCEPT !.subType = "recovery"])
            ELSE w2
  IN IF currentState = FALL /\ prevState \in Aerials
     THEN neutralExchange(w3, filePath,
            [base EXCEPT !.subType = "aerial", !.detail = aerialMap(prevState)])
     ELSE w3

\* The body of the forEach of _detectStateTransitions for one player whose
\* previous and current entries both carry post-frame data.
detectPlayer(w, filePath, currentFrame, playerIndex, prevState, currentState) ==
  LET base == [BlankEvent EXCEPT !.type = "actionState",
                                 !.playerIndex = playerIndex,
                                 !.frame = currentFrame.frame]
      w1 == IF currentState \in {TECH_START, TECH_ROLL_LEFT, TECH_ROLL_RIGHT}
            THEN neutralExchange(w, filePath,
                   [base EXCEPT !.subType = "tech",
                                !.detail = IF currentState = TECH_START THEN "in-place"
                                           ELSE IF currentState = TECH_ROLL_LEFT THEN "roll left"
                                           ELSE "roll right"])
            ELSE w
      w2 == IF currentState = SHIELD \/ currentState = GRAB
            THEN neutralExchange(w1, filePath,
                   [base EXCEPT !.subType = IF currentState = SHIELD THEN "shield" ELSE "grab"])
            ELSE w1
      w3 == IF currentState \in {FIRE_FOX_AIR, UP_B_AIR}
            THEN neutralExchange(w2, filePath, [base EXCEPT !.subType = "recovery"])
            ELSE w2
      w4 == IF currentState = FALL /\ prevState \in Aerials
            THEN neutralExchange(w3, filePath,
                   [base EXCEPT !.subType = "aerial", !.detail = aerialMap(prevState)])
            ELSE w3
  IN IF prevState # currentState THEN w4 ELSE w

\* currentFrame.players.forEach of _detectStateTransitions, from playerIndex on.
\* Reading player.post of a null entry throws; the throw leaves the forEach.
RECURSIVE detectFrom(_, _, _, _)
detectFrom(w, filePath, currentFrame, playerIndex) ==
  IF playerIndex >= Len(currentFrame.players) THEN w
  ELSE LET prev == PlayerAt(w.previousFrames[filePath], playerIndex)
           player == PlayerAt(currentFrame, playerIndex)
       IN IF prev.kind = "null"
          THEN detectFrom(w, filePath, currentFrame, playerIndex + 1)
          ELSE IF player.kind = "null"
          THEN [w EXCEPT !.threw = TRUE]
          ELSE IF player.kind = "nopost" \/ prev.kind = "nopost"
          THEN detectFrom(w, filePath, currentFrame, playerIndex + 1)
          ELSE detectFrom(
                 detectPlayer(w, filePath, currentFrame, playerIndex,
                              prev.actionStateId, player.actionStateId),
                 filePath, currentFrame, playerIndex + 1)

\* _detectStateTransitions
detectStateTransitions(w, filePath, currentFrame) ==
  IF ~w.previousFrames[filePath].present THEN w
  ELSE detectFrom(w, filePath, currentFrame, 0)


----------------------------------------------------------------------------
(* Stock tracking *)

\* _handleStockLost
handleStockLost(w, filePath, playerIndex, stocksLost, frame) ==
  LET r == canTriggerEventType(w, "STOCK_LOSS", filePath)
      st == gameState(r.w, filePath)
      remaining == st.lastStockCounts[playerIndex]
      w1 == SetState(r.w, filePath,
              [st EXCEPT !.stockEvents =
                 Append(@, [time |-> w.now, frame |-> frame.frame,
                            playerIndex |-> playerIndex, stocksLost |-> stocksLost,
                            remainingStocks |-> remaining])])
  IN IF ~r.ok THEN r.w
     ELSE addPendingEvent(w1, filePath,
            [BlankEvent EXCEPT !.type = "stockLost",
                               !.playerIndex = playerIndex,
                               !.stocksLost = stocksLost,
                               !.remainingStocks = remaining,
                               !.frame = frame.frame],
            "STOCK_LOSS")

\* The same body, keeping the lower of the tracked and the current count.
checkPlayerStocksLowest(w, filePath, latestFrame, playerIndex, currentStocks) ==
  LET previousStocks == gameState(w, filePath).lastStockCounts[playerIndex]
      w1 == IF currentStocks < previousStocks
            THEN handleStockLost(w, filePath, playerIndex,
                                 previousStocks - currentStocks, latestFrame)
            ELSE w
  IN [w1 EXCEPT !.gameByPath[filePath].state.lastStockCounts[playerIndex] =
                   Min(previousStocks, currentStocks)]

\* The body of the forEach of _checkStockChanges for one player with data.
checkPlayerStocks(w, filePath, latestFrame, playerIndex, currentStocks) ==
  LET previousStocks == gameState(w, filePath).lastStockCounts[playerIndex]
      w1 == IF currentStocks < previousStocks
            THEN handleStockLost(w, filePath, playerIndex,
                                 previousStocks - currentStocks, latestFrame)
            ELSE w
  IN [w1 EXCEPT !.gameByPath[filePath].state.lastStockCounts[playerIndex] = currentStocks]

RECURSIVE checkStocksFrom(_, _, _, _)
checkStocksFrom(w, filePath, latestFrame, playerIndex) ==
  IF playerIndex >= Len(latestFrame.players) THEN w
  ELSE LET player == PlayerAt(latestFrame, playerIndex)
       IN checkStocksFrom(
            IF player.kind # "ok" THEN w
            ELSE checkPlayerStocks(w, filePath, latestFrame, playerIndex,
                                   player.stocksRemaining),
            filePath, latestFrame, playerIndex + 1)

\* _checkStockChanges
checkStockChanges(w, filePath, latestFrame) ==
  checkStocksFrom(w, filePath, latestFrame, 0)

\* History, from the input alone: of the stocksRemaining values that
\* _checkStockChanges was shown for a player since the match started, the
\* least and the latest, and the stocks they show the player to have lost.
observeStocks(w, filePath, latestFrame) ==
  [w EXCEPT !.observed[filePath] =
     [i \in 0..3 |->
        LET player == PlayerAt(latestFrame, i)
            stocks == player.stocksRemaining
        IN IF player.kind # "ok" THEN @[i]
           ELSE [min |-> Min(@[i].min, stocks),
                 last |-> stocks,
                 lost |-> @[i].lost + Max(@[i].last - stocks, 0)]]]

----------------------------------------------------------------------------
(* Combos *)

comboDamage(combo) ==
  IF combo.hasPercent THEN combo.percent ELSE combo.endPercent - combo.startPercent

\* The filter without the comparison with the combos already recorded.
isNewComboUnkeyed(st, combo) == combo.moves >= MIN_COMBO_MOVES

\* The filter of _processNewCombos: it reads comboEvents as they are before
\* any combo of this call is recorded.
isNewCombo(st, combo) ==
  /\ combo.moves >= MIN_COMBO_MOVES
  /\ ~\E i \in 1..Len(st.comboEvents) :
        /\ st.comboEvents[i].playerIndex = combo.playerIndex
        /\ st.comboEvents[i].startFrame = combo.startFrame

\* The body of newCombos.forEach for one combo.
processCombo(w, filePath, combo) ==
  LET st == gameState(w, filePath)
      w1 == SetState(w, filePath,
              [st EXCEPT !.comboEvents =
                 Append(@, [playerIndex |-> combo.playerIndex,
                            startFrame |-> combo.startFrame,
                            endFrame |-> combo.endFrame,
                            moves |-> combo.moves,
                            damage |-> comboDamage(combo)])])
      comboType == IF combo.moves >= SIGNIFICANT_MOVES
                   THEN "SIGNIFICANT_COMBO" ELSE "MINOR_COMBO"
      r == canTriggerEventType(w1, comboType, filePath)
  IN IF ~r.ok THEN r.w
     ELSE addPendingEvent(r.w, filePath,
            [BlankEvent EXCEPT !.type = "combo",
                               !.playerIndex = combo.playerIndex,
                               !.moves = combo.moves,
                               !.damage = comboDamage(combo),
                               !.startFrame = combo.startFrame,
                               !.endFrame = combo.endFrame],
            comboType)

RECURSIVE processCombosFrom(_, _, _)
processCombosFrom(w, filePath, newCombos) ==
  IF newCombos = <<>> THEN w
  ELSE processCombosFrom(processCombo(w, filePath, Head(newCombos)),
                         filePath, Tail(newCombos))

\* _processNewCombos
processNewCombos(w, filePath, combos) ==
  LET st == gameState(w, filePath)
  IN processCombosFrom(w, filePath, SelectSeq(combos, LAMBDA c : isNewCombo(st, c)))

----------------------------------------------------------------------------
(* Frame processing *)

\* percent.toFixed(1) read back by parseFloat; percent is held in hundredths.
toFixed1(percent) == ((percent + 5) \div 10) * 10

\* The roster loop of the frame update: the entries gathered so far, and
\* whether frameData.post of an entry without post-frame data was read.
RECURSIVE heartbeatPlayers(_, _, _)
heartbeatPlayers(roster, latestFrame, i) ==
  IF i > Len(roster) THEN [threw |-> FALSE, players |-> <<>>]
  ELSE LET frameData == PlayerAt(latestFrame, roster[i].index)
           rest == heartbeatPlayers(roster, latestFrame, i + 1)
       IN IF frameData.kind = "null" THEN rest
          ELSE IF frameData.kind = "nopost" THEN [threw |-> TRUE, players |-> <<>>]
          ELSE [threw |-> rest.threw,
                players |-> IF rest.threw THEN <<>>
                            ELSE <<[index |-> roster[i].index,
                                    percent |-> toFixed1(frameData.percent),
                                    stocks |-> frameData.stocksRemaining]>> \o rest.players]

\* The frame-update block without the test of the frame number.
frameUpdateEveryFrame(w, filePath, latestFrame) ==
  LET r == canTriggerEventType(w, "FRAME_UPDATE", filePath)
      h == heartbeatPlayers(gameState(r.w, filePath).players, latestFrame, 1)
  IN IF ~r.ok THEN r.w
     ELSE IF h.threw THEN [r.w EXCEPT !.threw = TRUE]
     ELSE addPendingEvent(r.w, filePath,
            [BlankEvent EXCEPT !.type = "frameUpdate",
                               !.frame = latestFrame.frame,
                               !.players = h.players],
            "FRAME_UPDATE")

\* The frame-update block of _processFrameData.
frameUpdate(w, filePath, latestFrame) ==
  IF latestFrame.frame % HEARTBEAT_FRAMES # 0 THEN w
  ELSE LET r == canTriggerEventType(w, "FRAME_UPDATE", filePath)
           h == heartbeatPlayers(gameState(r.w, filePath).players, latestFrame, 1)
       IN IF ~r.ok THEN r.w
          ELSE IF h.threw THEN [r.w EXCEPT !.threw = TRUE]
          ELSE addPendingEvent(r.w, filePath,
                 [BlankEvent EXCEPT !.type = "frameUpdate",
                                    !.frame = latestFrame.frame,
                                    !.players = h.players],
                 "FRAME_UPDATE")

\* _processFrameData with the stock check ahead of the frame update.
processFrameDataStocksFirst(w, filePath, latestFrame, combos) ==
  LET w1 == checkStockChanges(observeStocks(w, filePath, latestFrame),
                              filePath, latestFrame)
      w2 == frameUpdate(w1, filePath, latestFrame)
  IN IF w2.threw THEN w2
     ELSE IF Len(combos) > 0 THEN processNewCombos(w2, filePath, combos)
     ELSE w2

\* _processFrameData; combos is what game.getStats().combos holds.
processFrameData(w, filePath, latestFrame, combos) ==
  LET w1 == frameUpdate(w, filePath, latestFrame)
      w2 == checkStockChanges(observeStocks(w1, filePath, latestFrame),
                              filePath, latestFrame)
  IN IF w1.threw THEN w1
     ELSE IF Len(combos) > 0 THEN processNewCombos(w2, filePath, combos)
     ELSE w2


----------------------------------------------------------------------------
(* Match end and summary *)

\* stocksLostByPlayer[idx] || 0
stocksLostByPlayer(st, idx) ==
  SumSeq([i \in 1..Len(st.stockEvents) |->
            IF st.stockEvents[i].playerIndex = idx
            THEN st.stockEvents[i].stocksLost ELSE 0])

\* totalDamage[idx] || 0
totalDamage(st, idx) ==
  SumSeq([i \in 1..Len(st.comboEvents) |->
            IF st.comboEvents[i].playerIndex = idx
            THEN st.comboEvents[i].damage ELSE 0])

\* matchData of _generateGameAnalysis: one entry per roster position idx.
matchData(st) ==
  [stockLosses |-> [i \in 1..Len(st.players) |-> stocksLostByPlayer(st, i - 1)],
   damageDealt |-> [i \in 1..Len(st.players) |-> totalDamage(st, i - 1)]]

\* _generateGameAnalysis without the return on an empty roster.
generateGameAnalysisAlways(w, filePath) ==
  LET st == gameState(w, filePath)
  IN [w EXCEPT !.analyses =
        Append(@, [path |-> filePath,
                   built |-> TRUE,
                   matchData |-> matchData(st),
                   shown |-> w.observed[filePath]])]

\* _generateGameAnalysis up to its await: the call is recorded; it builds a
\* summary unless the roster is empty.
generateGameAnalysis(w, filePath) ==
  LET st == gameState(w, filePath)
  IN [w EXCEPT !.analyses =
        Append(@, [path |-> filePath,
                   built |-> Len(st.players) > 0,
                   matchData |-> matchData(st),
                   shown |-> w.observed[filePath]])]

\* calculatePerformanceRating without Math.max(1, ...).
calculatePerformanceRatingUnclamped(damageDealt, stocksLost) ==
  IF stocksLost = 0 THEN (IF damageDealt > 0 THEN 10 ELSE 5)
  ELSE IF damageDealt = 0 THEN 1
  ELSE Min(10, damageDealt \div (20 * stocksLost))

\* The score of calculatePerformanceRating(damageDealt, stocksLost) for
\* numbers that are non-negative integers: damagePerStock is Infinity when no
\* stock was lost and damage was dealt, and 0 when neither happened.
calculatePerformanceRating(damageDealt, stocksLost) ==
  IF stocksLost = 0 THEN (IF damageDealt > 0 THEN 10 ELSE 5)
  ELSE IF damageDealt = 0 THEN 1
  ELSE Min(10, Max(1, damageDealt \div (20 * stocksLost)))

endTypes(gameEndMethod) ==
  CASE gameEndMethod = 1 -> "TIME!"
    [] gameEndMethod = 2 -> "GAME!"
    [] gameEndMethod = LRAS -> "No Contest"
    [] OTHER -> "Unknown"

\* _handleGameEnd
handleGameEnd(w, filePath, gameEnd) ==
  LET st == gameState(w, filePath)
      w1 == addPendingEvent(w, filePath,
              [BlankEvent EXCEPT !.type = "gameEnd",
                                 !.endType = endTypes(gameEnd.gameEndMethod),
                                 !.lrasQuitter = IF gameEnd.gameEndMethod = LRAS
                                                 THEN gameEnd.lrasInitiatorIndex ELSE -1,
                                 !.frame = st.latestFrameProcessed],
              "LIFECYCLE")
      w2 == generateGameAnalysis(w1, filePath)
  IN [w2 EXCEPT !.completedGames = @ \cup {filePath},
                !.activeGames = @ \ {filePath}]

\* _handleFileRemoval
handleFileRemoval(w, filePath) ==
  IF ~w.gameByPath[filePath].tracked THEN w
  ELSE LET w1 == IF filePath \in w.activeGames /\ filePath \notin w.completedGames
                 THEN [generateGameAnalysis(w, filePath)
                         EXCEPT !.completedGames = @ \cup {filePath}]
                 ELSE w
       IN [w1 EXCEPT !.activeGames = @ \ {filePath},
                     !.pendingEvents = DeleteKey(@, filePath),
                     !.previousFrames[filePath] = NoFrame,
                     !.admitted = MarkTornDown(@, QueueOf(w.pendingEvents, filePath))]

----------------------------------------------------------------------------
(* File change *)

\* gameState.players built from settings.players
rosterOf(settings) ==
  [i \in 1..Len(settings.players) |->
     [index |-> i - 1, characterId |-> settings.players[i]]]

\* First block of _handleFileChange: a file seen for the first time.
trackGame(w, filePath) ==
  IF w.gameByPath[filePath].tracked THEN w
  ELSE [w EXCEPT !.gameByPath[filePath] = [tracked |-> TRUE, state |-> FreshGameState],
                 !.pendingEvents =
                    IF KeyIndex(@, filePath) = 0
                    THEN Append(@, [path |-> filePath, events |-> <<>>])
                    ELSE [@ EXCEPT ![KeyIndex(@, filePath)].events = <<>>]]

\* Second block: game start, once the settings carry players.
startGame(w, filePath, settings) ==
  IF gameState(w, filePath).settings \/ ~settings.known THEN w
  ELSE LET w1 == handleGameStart(w, filePath, settings)
       IN [w1 EXCEPT !.gameByPath[filePath].state.settings = TRUE,
                     !.gameByPath[filePath].state.players = rosterOf(settings)]

\* The third block with >= in place of >.
processFrameAgain(w, filePath, latestFrame, combos) ==
  LET st == gameState(w, filePath)
      w1 == IF st.latestFrameProcessed > 0
            THEN detectStateTransitions(w, filePath, latestFrame)
            ELSE w
      w2 == [w1 EXCEPT !.previousFrames[filePath] = latestFrame]
      w3 == processFrameData(w2, filePath, latestFrame, combos)
  IN IF ~(st.settings /\ latestFrame.present
          /\ latestFrame.frame >= st.latestFrameProcessed) THEN w
     ELSE IF w1.threw THEN w1
     ELSE IF w3.threw THEN w3
     ELSE [w3 EXCEPT !.gameByPath[filePath].state.latestFrameProcessed = latestFrame.frame]

\* Third block: the latest frame, when it is newer than the last processed.
processFrame(w, filePath, latestFrame, combos) ==
  LET st == gameState(w, filePath)
      w1 == IF st.latestFrameProcessed > 0
            THEN detectStateTransitions(w, filePath, latestFrame)
            ELSE w
      w2 == [w1 EXCEPT !.previousFrames[filePath] = latestFrame]
      w3 == processFrameData(w2, filePath, latestFrame, combos)
  IN IF ~(st.settings /\ latestFrame.present
          /\ latestFrame.frame > st.latestFrameProcessed) THEN w
     ELSE IF w1.threw THEN w1
     ELSE IF w3.threw THEN w3
     ELSE [w3 EXCEPT !.gameByPath[filePath].state.latestFrameProcessed = latestFrame.frame]

\* The fourth block without the test of completedGames.
endGameAgain(w, filePath, gameEnd) ==
  IF gameEnd.present
  THEN handleGameEnd(w, filePath, gameEnd)
  ELSE w

\* Fourth block: game end, unless the game is already completed.
endGame(w, filePath, gameEnd) ==
  IF gameEnd.present /\ filePath \notin w.completedGames
  THEN handleGameEnd(w, filePath, gameEnd)
  ELSE w

\* _handleFileChange for an .slp path; input is what the SlippiGame of the
\* file returns in this call.  A throw leaves the try block: the catch logs it.
handleFileChange(w, filePath, input) ==
  LET w1 == trackGame(w, filePath)
      w2 == startGame(w1, filePath, input.settings)
      w3 == processFrame(w2, filePath, input.latestFrame, input.combos)
  IN IF w3.threw THEN w3 ELSE endGame(w3, filePath, input.gameEnd)


----------------------------------------------------------------------------
(* Narration: provideLiveCommentary(llmProvider, events, options) *)

\* What `x || '?'` and `playerIndex !== undefined ? playerIndex : 'na'` print
\* for a missing value.
Missing == 0 - 1

orQuestion(x) == IF x = Missing \/ x = 0 THEN Missing ELSE x

Unparsable == "<unparsable>"

\* generateCacheKey with the event left out of the key.
generateCacheKeyStyleOnly(event, style) ==
  <<"unknown", Missing, <<"default", Missing, Missing>>, style>>

\* generateCacheKey(event, style): the parts joined by '-'.
generateCacheKey(event, style) ==
  LET eventType == IF event.type = "" THEN "unknown" ELSE event.type
      additionalKey ==
        CASE eventType = "combo" -> <<"", orQuestion(event.moves), orQuestion(event.damage)>>
          [] eventType = "stockLost" -> <<"", orQuestion(event.remainingStocks), Missing>>
          [] eventType = "actionState" ->
               <<IF event.subType = "" THEN "generic" ELSE event.subType, Missing, Missing>>
          [] OTHER -> <<"default", Missing, Missing>>
  IN <<eventType, event.playerIndex, additionalKey, style>>

\* The texts.  A template text is one of the phrasings of its family, filled
\* with the fields of the event; the other texts are literals or completions.
Text(kind, body, variant, event) ==
  [kind |-> kind, body |-> body, variant |-> variant, event |-> event]

Empty == Text("empty", "", 0, BlankEvent)

Literal(body) == Text("literal", body, 0, BlankEvent)

Completion(body) == IF body = "" THEN Empty ELSE Text("llm", body, 0, BlankEvent)

\* The switch of generateActionStateTemplate.
actionStateTemplates ==
  {"wavedash-land", "l-cancel-attempt", "tech", "tech-miss", "shield", "grab", "recovery"}

\* generateTemplateCommentary(event, gameState); variant is the value of
\* Math.floor(Math.random() * templates.length).
generateTemplateCommentary(event, variant) ==
  LET content == [event EXCEPT !.id = 0]
  IN CASE event.type \in {"combo", "stockLost", "gameEnd", "frameUpdate"} ->
            Text("template", event.type, variant, content)
       [] event.type = "gameStart" ->
            IF Len(event.matchup) < 2
            THEN Text("template", "gameStart-stage", 0, content)
            ELSE Text("template", "gameStart", variant, content)
       [] event.type = "actionState" ->
            IF event.subType \in actionStateTemplates
            THEN Text("template", event.subType, variant, content)
            ELSE Text("template", "technical-execution", 0, content)
       [] OTHER -> Literal("The match continues!")

CacheIndex(cache, key) ==
  IF \E i \in 1..Len(cache) : cache[i].key = key
  THEN CHOOSE i \in 1..Len(cache) : cache[i].key = key
  ELSE 0

\* commentaryCache.set(cacheKey, {commentary, timestamp})
CacheSet(cache, key, commentary, timestamp) ==
  LET entry == [key |-> key, commentary |-> commentary, timestamp |-> timestamp]
  IN IF CacheIndex(cache, key) = 0 THEN Append(cache, entry)
     ELSE [cache EXCEPT ![CacheIndex(cache, key)] = entry]

\* commentaryCache.delete(cacheKey)
CacheDelete(cache, key) == SelectSeq(cache, LAMBDA e : e.key # key)

\* The cache lookup of provideLiveCommentary: a fresh entry is a hit, an
\* expired one is deleted.
cacheLookup(cache, key, time) ==
  LET i == CacheIndex(cache, key)
  IN IF i = 0 THEN [hit |-> FALSE, cache |-> cache, commentary |-> Empty]
     ELSE IF time - cache[i].timestamp < CACHE_EXPIRY
     THEN [hit |-> TRUE, cache |-> cache, commentary |-> cache[i].commentary]
     ELSE [hit |-> FALSE, cache |-> CacheDelete(cache, key), commentary |-> Empty]

\* A cache that stores nothing.
cacheResultNever(cache, key, commentary, time) == cache

\* if (commentary) commentaryCache.set(...)
cacheResult(cache, key, commentary, time) ==
  IF commentary.kind = "empty" THEN cache
  ELSE CacheSet(cache, key, commentary, time)

\* A call of provideLiveCommentary, as the history keeps it.
\* settled: the calls that had returned when this one was made; stored: the
\* call put its text in the cache; failed: generateCompletion threw.
Call(w, path, llmProvider, events, style) ==
  [path |-> path, llmProvider |-> llmProvider, events |-> events, style |-> style,
   start |-> w.now, end |-> w.now,
   settled |-> {i \in 1..Len(w.narrated) : ~w.narrated[i].pending},
   pending |-> FALSE, invoked |-> FALSE, failed |-> FALSE,
   fromCache |-> FALSE, stored |-> FALSE, text |-> Empty]

\* provideLiveCommentary up to its return or to its await of
\* llmProvider.generateCompletion (pending).  path names the match on whose
\* behalf the coach calls ("" for another caller).
provideLiveCommentary(w, path, llmProvider, events, style, variant) ==
  LET call == Call(w, path, llmProvider, events, style)
      event == events[1]
      key == generateCacheKey(event, style)
      look == cacheLookup(w.commentaryCache, key, w.now)
      template == generateTemplateCommentary(event, variant)
      record(c, cache) == [w EXCEPT !.narrated = Append(@, c), !.commentaryCache = cache]
  IN IF Len(events) = 0
     THEN record(call, w.commentaryCache)
     ELSE IF event.type = Unparsable
     THEN record([call EXCEPT !.text = Literal("Exciting match action!")], w.commentaryCache)
     ELSE IF look.hit
     THEN record([call EXCEPT !.text = look.commentary, !.fromCache = TRUE], look.cache)
     ELSE IF ~llmProvider
     THEN record([call EXCEPT !.text = template, !.stored = template.kind # "empty"],
                 cacheResult(look.cache, key, template, w.now))
     ELSE record([call EXCEPT !.pending = TRUE, !.invoked = TRUE], look.cache)

\* The rest of provideLiveCommentary without `|| 'Exciting gameplay!'`.
completeCommentaryBare(w, i, outcome, variant) ==
  LET call == w.narrated[i]
      event == call.events[1]
      key == generateCacheKey(event, call.style)
      done == [call EXCEPT !.pending = FALSE, !.end = w.now]
  IN IF outcome.threw
     THEN [w EXCEPT !.narrated[i] =
             [done EXCEPT !.failed = TRUE,
                          !.text = generateTemplateCommentary(event, variant)]]
     ELSE [w EXCEPT
             !.commentaryCache = cacheResult(@, key, outcome.commentary, w.now),
             !.narrated[i] =
               [done EXCEPT !.stored = outcome.commentary.kind # "empty",
                            !.text = outcome.commentary]]

\* The rest of provideLiveCommentary for call i, once generateCompletion has
\* returned commentary (outcome.threw = FALSE) or thrown.
completeCommentary(w, i, outcome, variant) ==
  LET call == w.narrated[i]
      event == call.events[1]
      key == generateCacheKey(event, call.style)
      done == [call EXCEPT !.pending = FALSE, !.end = w.now]
  IN IF outcome.threw
     THEN [w EXCEPT !.narrated[i] =
             [done EXCEPT !.failed = TRUE,
                          !.text = generateTemplateCommentary(event, variant)]]
     ELSE [w EXCEPT
             !.commentaryCache = cacheResult(@, key, outcome.commentary, w.now),
             !.narrated[i] =
               [done EXCEPT !.stored = outcome.commentary.kind # "empty",
                            !.text = IF outcome.commentary.kind = "empty"
                                     THEN Literal("Exciting gameplay!")
                                     ELSE outcome.commentary]]


----------------------------------------------------------------------------
(* Batch draining: _processPendingEvents *)

TECHNICAL == "technical"

\* slice in place of splice: nothing leaves the queue.
spliceKeeping(events) ==
  [taken |-> SubSeq(events, 1, Min(Len(events), PENDING_EVENTS_LIMIT)),
   left |-> events]

\* events.splice(0, PENDING_EVENTS_LIMIT): what is taken and what stays.
splice(events) ==
  [taken |-> SubSeq(events, 1, Min(Len(events), PENDING_EVENTS_LIMIT)),
   left |-> SubSeq(events, Min(Len(events), PENDING_EVENTS_LIMIT) + 1, Len(events))]

\* The end of _processPendingEvents with the interval cleared whatever the
\* queues hold.
clearAfterTick(w) ==
  IF w.eventProcessorInterval
  THEN [w EXCEPT !.eventProcessorInterval = FALSE, !.timers = @ - 1]
  ELSE w

\* The lines after the for loop: clear the interval when every queue is empty.
clearIfIdle(w) ==
  LET hasPendingEvents ==
        \E i \in 1..Len(w.pendingEvents) : Len(w.pendingEvents[i].events) > 0
  IN IF ~hasPendingEvents /\ w.eventProcessorInterval
     THEN [w EXCEPT !.eventProcessorInterval = FALSE, !.timers = @ - 1]
     ELSE w

\* _processPendingEvents from the key at the head of keys up to its next
\* await (suspended, with the keys still to visit) or to its end.  The call
\* passes no provider, so provideLiveCommentary answers before it returns.
RECURSIVE processPendingEvents(_, _, _)
processPendingEvents(w, keys, variant) ==
  IF keys = <<>> THEN [w |-> clearIfIdle(w), suspended |-> FALSE, keys |-> <<>>]
  ELSE LET filePath == Head(keys)
           events == QueueOf(w.pendingEvents, filePath)
           eventsToProcess == splice(events)
           w1 == [w EXCEPT !.pendingEvents[KeyIndex(w.pendingEvents, filePath)].events =
                              eventsToProcess.left]
       IN IF Len(events) = 0 \/ ~w.gameByPath[filePath].tracked
          THEN processPendingEvents(w, Tail(keys), variant)
          ELSE [w |-> provideLiveCommentary(w1, filePath, FALSE,
                                            eventsToProcess.taken, TECHNICAL, variant),
                suspended |-> TRUE,
                keys |-> Tail(keys)]

\* Object.keys(this.pendingEvents)
KeysOf(pe) == [i \in 1..Len(pe) |-> pe[i].path]

RemoveAt(s, i) == SubSeq(s, 1, i - 1) \o SubSeq(s, i + 1, Len(s))

----------------------------------------------------------------------------
(* Actions *)

StartClock == FRAME_UPDATE_threshold

Assign(w) ==
  /\ gameByPath' = w.gameByPath
  /\ activeGames' = w.activeGames
  /\ completedGames' = w.completedGames
  /\ pendingEvents' = w.pendingEvents
  /\ eventProcessorInterval' = w.eventProcessorInterval
  /\ timers' = w.timers
  /\ previousFrames' = w.previousFrames
  /\ commentaryCache' = w.commentaryCache
  /\ admitted' = w.admitted
  /\ narrated' = w.narrated
  /\ analyses' = w.analyses
  /\ observed' = w.observed

NoInput ==
  [settings |-> [known |-> FALSE, players |-> <<>>],
   latestFrame |-> NoFrame,
   combos |-> <<>>,
   gameEnd |-> [present |-> FALSE, gameEndMethod |-> 0, lrasInitiatorIndex |-> 0]]

\* What the history keeps of a handler call, in the universes that keep it
\* (env.ops): the handler, the path, the frame number delivered (INITIAL_FRAME
\* for none), whether settings and a game end were seen, and whether the
\* frame lacks a player entry or the post-frame data of one.
Op(name, path, input) ==
  IF ~env.ops THEN lastOp ELSE
  [op |-> name, path |-> path,
   frame |-> IF input.latestFrame.present THEN input.latestFrame.frame ELSE INITIAL_FRAME,
   settings |-> input.settings.known,
   gameEnd |-> input.gameEnd.present,
   gap |-> /\ input.latestFrame.present
           /\ \E i \in 1..Len(input.latestFrame.players) :
                 input.latestFrame.players[i].kind # "ok"]

\* chokidar 'add' or 'change' of filePath.
FileChange(filePath, input) ==
  LET w == handleFileChange(World, filePath, input)
  IN /\ isMonitoring
     /\ Len(w.admitted) <= MaxEvents
     /\ Assign(w)
     /\ lastOp' = Op("fileChange", filePath, input)
     /\ UNCHANGED <<env, now, inFlight, isMonitoring>>

\* chokidar 'unlink' of filePath.
FileRemoval(filePath) ==
  /\ isMonitoring
  /\ Assign(handleFileRemoval(World, filePath))
  /\ lastOp' = Op("fileRemoval", filePath, NoInput)
  /\ UNCHANGED <<env, now, inFlight, isMonitoring>>

\* The interval timer fires: a new call of _processPendingEvents.
Tick(variant) ==
  LET r == processPendingEvents(World, KeysOf(pendingEvents), variant)
  IN /\ eventProcessorInterval
     /\ Len(inFlight) < MaxInFlight
     /\ Assign(r.w)
     /\ inFlight' = IF r.suspended THEN Append(inFlight, r.keys) ELSE inFlight
     /\ lastOp' = Op("tick", "", NoInput)
     /\ UNCHANGED <<env, now, isMonitoring>>

\* _processPendingEvents from keys to its end, its awaits settling at once.
RECURSIVE drainFrom(_, _, _)
drainFrom(w, keys, variant) ==
  LET r == processPendingEvents(w, keys, variant)
  IN IF r.suspended THEN drainFrom(r.w, r.keys, variant) ELSE r.w

\* The interval timer fires and the call of _processPendingEvents runs to its
\* end before any other handler: it passes no provider, so each promise it
\* awaits is already resolved and its continuation is a microtask.
Drain(variant) ==
  /\ eventProcessorInterval
  /\ Assign(drainFrom(World, KeysOf(pendingEvents), variant))
  /\ lastOp' = Op("tick", "", NoInput)
  /\ UNCHANGED <<env, now, inFlight, isMonitoring>>

\* The awaited provideLiveCommentary of suspended call i has settled.
Resume(i, variant) ==
  LET r == processPendingEvents(World, inFlight[i], variant)
  IN /\ i \in 1..Len(inFlight)
     /\ Assign(r.w)
     /\ inFlight' = IF r.suspended THEN [inFlight EXCEPT ![i] = r.keys]
                    ELSE RemoveAt(inFlight, i)
     /\ lastOp' = Op("resume", "", NoInput)
     /\ UNCHANGED <<env, now, isMonitoring>>

\* start(): the watcher is set up and delivers file events from now on.
Start ==
  /\ ~isMonitoring
  /\ isMonitoring' = TRUE
  /\ lastOp' = Op("start", "", NoInput)
  /\ UNCHANGED <<env, now, gameByPath, activeGames, completedGames, pendingEvents,
                 eventProcessorInterval, timers, previousFrames, inFlight, commentaryCache,
                 admitted, narrated, analyses, observed>>

\* Every event of every queue, queue after queue.
RECURSIVE AllPending(_)
AllPending(pe) ==
  IF pe = <<>> THEN <<>> ELSE Head(pe).events \o AllPending(Tail(pe))

\* stop()
Stop ==
  /\ isMonitoring
  /\ isMonitoring' = FALSE
  /\ eventProcessorInterval' = FALSE
  /\ timers' = IF eventProcessorInterval THEN timers - 1 ELSE timers
  /\ admitted' = MarkTornDown(admitted, AllPending(pendingEvents))
  /\ lastOp' = Op("stop", "", NoInput)
  /\ UNCHANGED <<env, now, gameByPath, activeGames, completedGames, pendingEvents,
                 previousFrames, inFlight, commentaryCache, narrated,
                 analyses, observed>>

\* Time passes.
AdvanceClock(d) ==
  /\ now + d <= StartClock + env.horizon
  /\ now' = now + d
  /\ lastOp' = Op("clock", "", NoInput)
  /\ UNCHANGED <<env, gameByPath, activeGames, completedGames, pendingEvents,
                 eventProcessorInterval, timers, previousFrames, inFlight, isMonitoring,
                 commentaryCache, admitted, narrated, analyses, observed>>

\* A caller other than the coach (index.js) requests commentary with the
\* provider it was configured with.
Request(events, style, variant) ==
  /\ Len(narrated) < MaxCalls
  /\ Assign(provideLiveCommentary(World, "", env.provider, events, style, variant))
  /\ lastOp' = Op("request", "", NoInput)
  /\ UNCHANGED <<env, now, inFlight, isMonitoring>>

\* provideLiveCommentary is handed one batch after another, each beginning
\* with a combo of a damage that no earlier batch had: every call has a
\* cache key of its own.
RequestInTurn(style, variant) ==
  LET n == Len(narrated) + 1
      events == <<[BlankEvent EXCEPT !.type = "combo", !.playerIndex = 0,
                                     !.moves = SIGNIFICANT_MOVES,
                                     !.damage = n * 100]>>
  IN /\ n <= MAX_CACHE_SIZE + 1
     /\ Assign(provideLiveCommentary(World, "", env.provider, events, style, variant))
     /\ lastOp' = Op("request", "", NoInput)
     /\ UNCHANGED <<env, now, inFlight, isMonitoring>>

\* createAdvancedCoachingPrompt rates one player of the match data it is
\* given; the history keeps the numbers and the score.
Advise(damageDealt, stocksLost) ==
  /\ analyses = <<>>
  /\ analyses' = <<[path |-> "", built |-> TRUE,
                    damageDealt |-> damageDealt, stocksLost |-> stocksLost,
                    score |-> calculatePerformanceRating(damageDealt, stocksLost)]>>
  /\ lastOp' = Op("advise", "", NoInput)
  /\ UNCHANGED <<env, now, gameByPath, activeGames, completedGames, pendingEvents,
                 eventProcessorInterval, timers, previousFrames, inFlight, isMonitoring,
                 commentaryCache, admitted, narrated, observed>>

\* llmProvider.generateCompletion settles for call i of the history.
ProviderReturn(i, outcome, variant) ==
  /\ i \in 1..Len(narrated)
  /\ narrated[i].pending
  /\ Assign(completeCommentary(World, i, outcome, variant))
  /\ lastOp' = Op("providerReturn", "", NoInput)
  /\ UNCHANGED <<env, now, inFlight, isMonitoring>>

\* The state after new EnhancedSlippiCoach(...) and the import of
\* liveCommentary.js.
InitCoach(universe) ==
  /\ env = universe
  /\ now = StartClock
  /\ gameByPath = [p \in universe.paths |-> Untracked]
  /\ activeGames = {}
  /\ completedGames = {}
  /\ pendingEvents = <<>>
  /\ eventProcessorInterval = FALSE
  /\ timers = 0
  /\ previousFrames = [p \in universe.paths |-> NoFrame]
  /\ inFlight = <<>>
  /\ isMonitoring = FALSE
  /\ commentaryCache = <<>>
  /\ admitted = <<>>
  /\ narrated = <<>>
  /\ analyses = <<>>
  /\ observed = [p \in universe.paths |-> [i \in 0..3 |-> NothingObserved]]
  /\ lastOp = [op |-> "new", path |-> "", frame |-> INITIAL_FRAME,
               settings |-> FALSE, gameEnd |-> FALSE, gap |-> FALSE]


----------------------------------------------------------------------------
(* Universes and specifications *)

FoxMarth == <<2, 9>>

PlayerOk(stocks, state) ==
  [kind |-> "ok", stocksRemaining |-> stocks, percent |-> 1234, actionStateId |-> state]

\* A player entry that is missing ("null") or has no post-frame data ("nopost").
PlayerGap(kind) == [kind |-> kind, stocksRemaining |-> 0, percent |-> 0, actionStateId |-> 0]

Frame(n, players) == [present |-> TRUE, frame |-> n, players |-> players]

Settings(players) == [known |-> TRUE, players |-> players]

GameEnd(method) == [present |-> TRUE, gameEndMethod |-> method, lrasInitiatorIndex |-> 0]

Combo(playerIndex, startFrame, moves, percent) ==
  [playerIndex |-> playerIndex, startFrame |-> startFrame, endFrame |-> startFrame + 50,
   moves |-> moves, hasPercent |-> TRUE, percent |-> percent,
   startPercent |-> 0, endPercent |-> percent]

Input(settings, latestFrame, combos, gameEnd) ==
  [settings |-> settings, latestFrame |-> latestFrame, combos |-> combos,
   gameEnd |-> gameEnd]

Product(settings, frames, combos, gameEnds) ==
  {Input(s, f, c, g) : s \in settings, f \in frames, c \in combos, g \in gameEnds}

\* One match with its settings known from the first call.  Frames 150, 300
\* and 600 (two of them frame updates) in which both players dash with four
\* stocks, both shield with three, or the second is grabbing with two; no
\* combo, or a 4-hit combo of player 0 and a 2-hit and a 3-hit combo of
\* player 1.
TrackerUniverse ==
  [paths |-> {"a.slp"},
   inputs |->
     Product({Settings(FoxMarth)},
             {NoFrame} \cup
               {Frame(n, players) :
                  n \in {150, 300, 600},
                  players \in {<<PlayerOk(4, DASH), PlayerOk(4, DASH)>>,
                               <<PlayerOk(3, SHIELD), PlayerOk(3, SHIELD)>>,
                               <<PlayerOk(4, DASH), PlayerOk(2, GRAB)>>}},
             {<<>>,
              <<Combo(0, 10, 4, 4000), Combo(1, 20, 2, 1500), Combo(1, 90, 3, 2000)>>},
             {NoInput.gameEnd}),
   clockSteps |-> {2500},
   horizon |-> MaxClock,
   variants |-> {0},
   ops |-> FALSE,
   provider |-> FALSE,
   batches |-> {},
   styles |-> {},
   outcomes |-> {}]

\* One match whose settings and game end may show in any call and whose file
\* may be removed.  Frames 300 and 600 in which both players dash with four
\* stocks or the first shields with three; no combo or one 4-hit combo.  One
\* clock step takes every throttle window past its end.
LifecycleUniverse ==
  [paths |-> {"a.slp"},
   inputs |->
     Product({NoInput.settings, Settings(FoxMarth)},
             {NoFrame} \cup
               {Frame(n, players) :
                  n \in {300, 600},
                  players \in {<<PlayerOk(4, DASH), PlayerOk(4, DASH)>>,
                               <<PlayerOk(3, SHIELD), PlayerOk(4, DASH)>>}},
             {<<>>, <<Combo(0, 10, 4, 4000)>>},
             {NoInput.gameEnd, GameEnd(2)}),
   clockSteps |-> {MaxClock},
   horizon |-> MaxClock,
   variants |-> {0},
   ops |-> TRUE,
   provider |-> FALSE,
   batches |-> {},
   styles |-> {},
   outcomes |-> {}]

\* One match with its settings known from the first call, and no combos.
\* Frames 100, 200 and 300 in which the stocks of the two players fall and
\* rise; the clock moves in steps of half the stock-loss window.
StockUniverse ==
  [paths |-> {"a.slp"},
   inputs |->
     Product({Settings(FoxMarth)},
             {NoFrame} \cup
               {Frame(n, <<PlayerOk(a, DASH), PlayerOk(b, DASH)>>) :
                  n \in {100, 200, 301}, a \in {2, 3, 4}, b \in {3, 4}},
             {<<>>},
             {NoInput.gameEnd, GameEnd(2)}),
   clockSteps |-> {STOCK_LOSS_threshold \div 2},
   horizon |-> MaxClock \div 10,
   variants |-> {0},
   ops |-> FALSE,
   provider |-> FALSE,
   batches |-> {},
   styles |-> {},
   outcomes |-> {}]

\* Two matches, drained by the interval timer.  A call shows the settings
\* alone, or the settings and frame 300 with a 4-hit and a 2-hit combo (four
\* events at once).
BatchUniverse ==
  [paths |-> {"a.slp", "b.slp"},
   inputs |->
     Product({Settings(FoxMarth)}, {NoFrame}, {<<>>}, {NoInput.gameEnd})
     \cup
     {Input(Settings(FoxMarth),
            Frame(300, <<PlayerOk(4, DASH), PlayerOk(4, DASH)>>),
            <<Combo(0, 10, 4, 4000), Combo(1, 20, 2, 1500)>>,
            NoInput.gameEnd)},
   clockSteps |-> {MaxClock \div 4},
   horizon |-> MaxClock \div 4,
   variants |-> {0},
   ops |-> FALSE,
   provider |-> FALSE,
   batches |-> {},
   styles |-> {},
   outcomes |-> {}]

\* A process that requests commentary without the coach (index.js), with a
\* provider or without one.  The batches are a 4-hit combo, the combo
\* followed by a stock loss, and a string that is not JSON; the provider
\* throws, completes with nothing or completes with a text.
NarratedCombo ==
  [BlankEvent EXCEPT !.type = "combo", !.playerIndex = 0, !.moves = 4, !.damage = 4000]

NarratedStockLost ==
  [BlankEvent EXCEPT !.type = "stockLost", !.playerIndex = 1, !.stocksLost = 1,
                     !.remainingStocks = 3]

NarrationUniverse(llmProvider) ==
  [paths |-> {},
   inputs |-> {},
   clockSteps |-> {CACHE_EXPIRY \div 2},
   horizon |-> CACHE_EXPIRY,
   variants |-> {0, 1},
   ops |-> FALSE,
   provider |-> llmProvider,
   batches |-> {<<NarratedCombo>>, <<NarratedCombo, NarratedStockLost>>,
                <<[BlankEvent EXCEPT !.type = Unparsable]>>},
   styles |-> {TECHNICAL, "hype"},
   outcomes |-> {[threw |-> TRUE, commentary |-> Empty],
                 [threw |-> FALSE, commentary |-> Completion("")],
                 [threw |-> FALSE, commentary |-> Completion("Huge punish!")]}]

NextNarration ==
  \/ \E events \in env.batches, style \in env.styles, variant \in env.variants :
        Request(events, style, variant)
  \/ \E i \in 1..Len(narrated), outcome \in env.outcomes, variant \in env.variants :
        ProviderReturn(i, outcome, variant)
  \/ \E d \in env.clockSteps : AdvanceClock(d)

SpecNarration ==
  /\ \E llmProvider \in BOOLEAN : InitCoach(NarrationUniverse(llmProvider))
  /\ [][NextNarration]_vars

\* Narration of batches that hold the same events in either order, and of a
\* batch that is the beginning of another.
KeyUniverse(llmProvider) ==
  [NarrationUniverse(llmProvider) EXCEPT
     !.batches = {<<NarratedCombo>>, <<NarratedCombo, NarratedStockLost>>,
                  <<NarratedStockLost, NarratedCombo>>},
     !.styles = {TECHNICAL},
     !.variants = {0}]

SpecKeys ==
  /\ \E llmProvider \in BOOLEAN : InitCoach(KeyUniverse(llmProvider))
  /\ [][NextNarration]_vars

\* A long session of narration without a provider: the texts are templates.
\* One clock step takes every entry of the cache past its expiry.
GrowthUniverse ==
  [paths |-> {},
   inputs |-> {},
   clockSteps |-> {CACHE_EXPIRY},
   horizon |-> CACHE_EXPIRY,
   variants |-> {0},
   ops |-> FALSE,
   provider |-> FALSE,
   batches |-> {},
   styles |-> {TECHNICAL},
   outcomes |-> {}]

NextGrowth ==
  \/ \E style \in env.styles, variant \in env.variants : RequestInTurn(style, variant)
  \/ \E d \in env.clockSteps : AdvanceClock(d)

SpecGrowth == InitCoach(GrowthUniverse) /\ [][NextGrowth]_vars

\* One match over frames 100 to 400, no frame update among them, with the
\* combo list of its statistics as it grows: a combo of player 0 begun at
\* frame 10 is listed with 1, then 3, then 4 moves; a combo of player 1 begun
\* at frame 20 with 1, then 2 moves; a second combo of player 0 joins last.
\* Within one list no two combos have the same player and start frame.
ComboUniverse ==
  [paths |-> {"a.slp"},
   inputs |->
     Product({Settings(FoxMarth)},
             {NoFrame} \cup
               {Frame(n, <<PlayerOk(4, DASH), PlayerOk(4, DASH)>>) :
                  n \in {100, 200, 301, 400}},
             {<<>>,
              <<Combo(0, 10, 1, 500)>>,
              <<Combo(0, 10, 3, 1500)>>,
              <<Combo(0, 10, 4, 4000), Combo(1, 20, 1, 300)>>,
              <<Combo(0, 10, 4, 4000), Combo(1, 20, 2, 1500), Combo(0, 90, 5, 5000)>>},
             {NoInput.gameEnd}),
   clockSteps |-> {2500},
   horizon |-> MaxClock,
   variants |-> {0},
   ops |-> FALSE,
   provider |-> FALSE,
   batches |-> {},
   styles |-> {},
   outcomes |-> {}]

\* One match over frames 100, 200 and 301.  The first player dashes, falls,
\* is in a neutral air, shields, tech-rolls or recovers; the second dashes
\* or grabs.  One clock step is the NEUTRAL_EXCHANGE threshold.
TransitionUniverse ==
  [paths |-> {"a.slp"},
   inputs |->
     Product({Settings(FoxMarth)},
             {NoFrame} \cup
               {Frame(n, <<PlayerOk(4, a), PlayerOk(4, b)>>) :
                  n \in {100, 200, 301},
                  a \in {DASH, FALL, NAIR, SHIELD, TECH_ROLL_LEFT, UP_B_AIR},
                  b \in {DASH, GRAB}},
             {<<>>},
             {NoInput.gameEnd}),
   clockSteps |-> {NEUTRAL_EXCHANGE_threshold},
   horizon |-> MaxClock,
   variants |-> {0},
   ops |-> FALSE,
   provider |-> FALSE,
   batches |-> {},
   styles |-> {},
   outcomes |-> {}]

\* One match over frames 150 and 300, the second a frame update.  A frame
\* holds both players, or a first player without post-frame data or without
\* an entry beside a second player who shields with three stocks.
GapUniverse ==
  [paths |-> {"a.slp"},
   inputs |->
     Product({Settings(FoxMarth)},
             {NoFrame} \cup
               {Frame(n, players) :
                  n \in {150, 300},
                  players \in {<<PlayerOk(4, DASH), PlayerOk(4, DASH)>>,
                               <<PlayerGap("nopost"), PlayerOk(3, SHIELD)>>,
                               <<PlayerGap("null"), PlayerOk(3, SHIELD)>>}},
             {<<>>},
             {NoInput.gameEnd}),
   clockSteps |-> {MaxClock},
   horizon |-> MaxClock,
   variants |-> {0},
   ops |-> TRUE,
   provider |-> FALSE,
   batches |-> {},
   styles |-> {},
   outcomes |-> {}]

\* One match of two players who occupy the indices 0 and 2 of the frames
\* (ports 1 and 3): a frame holds no entry at index 1.  Either player loses a
\* stock over frames 100 and 200, and the statistics hold no combo or a
\* 4-hit combo of the player of index 2.
RosterUniverse ==
  [paths |-> {"a.slp"},
   inputs |->
     Product({Settings(FoxMarth)},
             {NoFrame} \cup
               {Frame(n, <<PlayerOk(a, DASH), PlayerGap("null"), PlayerOk(b, DASH)>>) :
                  n \in {100, 200}, a \in {3, 4}, b \in {3, 4}},
             {<<>>, <<Combo(2, 10, 4, 4000)>>},
             {NoInput.gameEnd, GameEnd(2)}),
   clockSteps |-> {MaxClock},
   horizon |-> MaxClock,
   variants |-> {0},
   ops |-> FALSE,
   provider |-> FALSE,
   batches |-> {},
   styles |-> {},
   outcomes |-> {}]

\* The universe of the batches, with the handler of every step kept.
TimerUniverse == [BatchUniverse EXCEPT !.ops = TRUE]

\* The ratings: every damageDealt up to MaxDamage with every stocksLost up
\* to MaxStocksLost.
NextRating ==
  \E damageDealt \in 0..MaxDamage, stocksLost \in 0..MaxStocksLost :
     Advise(damageDealt, stocksLost)

SpecRating == InitCoach(GrowthUniverse) /\ [][NextRating]_vars

\* Every handler of the coach.
Next ==
  \/ Start
  \/ \E filePath \in env.paths, input \in env.inputs : FileChange(filePath, input)
  \/ \E filePath \in env.paths : FileRemoval(filePath)
  \/ \E variant \in env.variants : Tick(variant)
  \/ \E i \in 1..Len(inFlight), variant \in env.variants : Resume(i, variant)
  \/ Stop
  \/ \E d \in env.clockSteps : AdvanceClock(d)

Spec == InitCoach(BatchUniverse) /\ [][Next]_vars

\* Every handler of the coach, a tick running to its end at once.
NextTeardown ==
  \/ Start
  \/ \E filePath \in env.paths, input \in env.inputs : FileChange(filePath, input)
  \/ \E filePath \in env.paths : FileRemoval(filePath)
  \/ \E variant \in env.variants : Drain(variant)
  \/ Stop
  \/ \E d \in env.clockSteps : AdvanceClock(d)

SpecTeardown == InitCoach(BatchUniverse) /\ [][NextTeardown]_vars

SpecTimer == InitCoach(TimerUniverse) /\ [][NextTeardown]_vars

\* setInterval fires the tick again and again while the timer is set: weak
\* fairness of Drain, WF_vars(\E variant \in env.variants : Drain(variant)),
\* written out with the guard of Drain in place of ENABLED.  (A tick of a set
\* timer changes the state: it hands over a batch or clears the timer.)
TickFairness ==
  \/ []<>(~eventProcessorInterval)
  \/ []<><<\E variant \in env.variants : Drain(variant)>>_vars

SpecLive == SpecTeardown /\ TickFairness

\* The watcher's handlers and the clock.  The interval timer's callbacks are
\* left to Spec: they write pendingEvents, eventProcessorInterval, the cache
\* and the narration history, none of which the watcher's handlers read to
\* decide what to track or admit.
NextWatcher ==
  \/ Start
  \/ \E filePath \in env.paths, input \in env.inputs : FileChange(filePath, input)
  \/ \E filePath \in env.paths : FileRemoval(filePath)
  \/ \E d \in env.clockSteps : AdvanceClock(d)

SpecLifecycle == InitCoach(LifecycleUniverse) /\ [][NextWatcher]_vars

\* File changes and the clock, for a file that is not removed.
NextTracker ==
  \/ Start
  \/ \E filePath \in env.paths, input \in env.inputs : FileChange(filePath, input)
  \/ \E d \in env.clockSteps : AdvanceClock(d)

SpecTracker == InitCoach(TrackerUniverse) /\ [][NextTracker]_vars

SpecStocks == InitCoach(StockUniverse) /\ [][NextTracker]_vars

SpecGaps == InitCoach(GapUniverse) /\ [][NextTracker]_vars

SpecTransitions == InitCoach(TransitionUniverse) /\ [][NextTracker]_vars

SpecCombos == InitCoach(ComboUniverse) /\ [][NextTracker]_vars

SpecRoster == InitCoach(RosterUniverse) /\ [][NextTracker]_vars

----------------------------------------------------------------------------
(* Properties *)

\* The admissions of a match in a throttle class, as positions of the history.
AdmittedOf(filePath, class) ==
  {i \in 1..Len(admitted) : admitted[i].path = filePath /\ admitted[i].class = class}

\* The batches handed to narration on behalf of a match.
Batches(filePath) ==
  {i \in 1..Len(narrated) : narrated[i].path = filePath}

\* The calls of _generateGameAnalysis for a match.
Analyses(filePath) ==
  {i \in 1..Len(analyses) : analyses[i].path = filePath}

\* C1: any two events of one throttle class admitted to the queue of one
\* match are at least threshold(class) milliseconds apart, whichever players
\* they concern and however many candidates came in between.
C1_ThrottleSpacing ==
  \A filePath \in env.paths, class \in EventTypes :
    \A i, j \in AdmittedOf(filePath, class) :
      i < j => admitted[j].time - admitted[i].time >= threshold(class)

\* Two stock losses of different players were admitted for one match, and a
\* stock loss that the frames showed was dropped in the window.
C1_Witness ==
  \E filePath \in env.paths :
    /\ \E i, j \in AdmittedOf(filePath, "STOCK_LOSS") :
         /\ i < j
         /\ admitted[i].event.playerIndex # admitted[j].event.playerIndex
    /\ \E p \in 0..3 :
         observed[filePath][p].lost > stocksLostByPlayer(gameByPath[filePath].state, p)

\* C2: every batch handed to narration holds between 1 and
\* PENDING_EVENTS_LIMIT events, and no enqueued event is in two batches (or
\* twice in one), whatever the interleaving of enqueues and ticks.
C2_BatchSizeAndDisjoint ==
  /\ \A i \in 1..Len(narrated) :
       Len(narrated[i].events) \in 1..PENDING_EVENTS_LIMIT
  /\ \A i, j \in 1..Len(narrated) :
       \A m \in 1..Len(narrated[i].events), n \in 1..Len(narrated[j].events) :
         narrated[i].events[m].id = narrated[j].events[n].id => i = j /\ m = n

\* Two ticks are suspended at once, each having handed over one batch of the
\* same match: a full batch and the rest of the queue.
C2_Witness ==
  /\ Len(inFlight) = 2
  /\ Len(narrated) = 2
  /\ narrated[1].path = narrated[2].path
  /\ Len(narrated[1].events) = PENDING_EVENTS_LIMIT
  /\ Len(narrated[2].events) >= 1

\* C3: within one match events are handed to narration in the order of their
\* enqueueing, inside a batch and from an earlier batch to a later one, also
\* when a tick starts while an earlier one is suspended.
C3_FifoPerMatch ==
  \A filePath \in env.paths :
    \A i, j \in Batches(filePath) :
      \A m \in 1..Len(narrated[i].events), n \in 1..Len(narrated[j].events) :
        (i < j \/ (i = j /\ m < n))
          => narrated[i].events[m].id < narrated[j].events[n].id

\* Two ticks are suspended at once; the later batch of a match holds an event
\* that was enqueued after the earlier batch of the match was handed over.
C3_Witness ==
  /\ Len(inFlight) = 2
  /\ \E filePath \in env.paths :
       \E i, j \in Batches(filePath) :
         /\ i < j
         /\ Len(narrated[j].events) > 1
         /\ \E n \in 1..Len(narrated[j].events) :
              admitted[narrated[j].events[n].id].time > narrated[i].start

FrameEventTypes == {"stockLost", "actionState", "combo", "frameUpdate"}

\* C4: a file change that delivers a frame whose number is at most the
\* latestFrameProcessed of the match enqueues no stock-loss, action-state,
\* combo or frame-update event and changes neither the tracked stock counts
\* nor the stock and combo histories.
C4_StaleFrameIgnored ==
  [][\A filePath \in env.paths :
       (/\ lastOp'.op = "fileChange"
        /\ lastOp'.path = filePath
        /\ lastOp'.frame > INITIAL_FRAME
        /\ lastOp'.frame <= gameByPath[filePath].state.latestFrameProcessed)
       => /\ \A k \in (Len(admitted) + 1)..Len(admitted') :
               admitted'[k].event.type \notin FrameEventTypes
          /\ gameByPath'[filePath].state.lastStockCounts
               = gameByPath[filePath].state.lastStockCounts
          /\ gameByPath'[filePath].state.stockEvents
               = gameByPath[filePath].state.stockEvents
          /\ gameByPath'[filePath].state.comboEvents
               = gameByPath[filePath].state.comboEvents]_vars

\* The handler has just been given, for the second time and later on the
\* clock, a frame whose events it had admitted the first time.
C4_Witness ==
  /\ lastOp.op = "fileChange"
  /\ lastOp.frame > 0
  /\ lastOp.frame = gameByPath[lastOp.path].state.latestFrameProcessed
  /\ \E k \in 1..Len(admitted) :
       /\ admitted[k].path = lastOp.path
       /\ admitted[k].event.type \in FrameEventTypes
       /\ admitted[k].event.frame = lastOp.frame
       /\ admitted[k].time < now

\* C5 as stated: the tracked stock count of every player of a match is the
\* least stocksRemaining seen for the player since the match started.
C5_TracksLowest ==
  \A filePath \in env.paths, p \in 0..3 :
    gameByPath[filePath].state.lastStockCounts[p] = observed[filePath][p].min

\* C5, amended: the tracked stock count of every player of a match is the
\* stocksRemaining most recently seen for the player since the match started
\* (INITIAL_STOCKS before any); it is the least seen as long as the values
\* seen have not risen.
C5_TracksLatest ==
  \A filePath \in env.paths, p \in 0..3 :
    gameByPath[filePath].state.lastStockCounts[p] = observed[filePath][p].last

\* A player's stocks fell and rose again, and the tracked count rose with them.
C5_Witness ==
  \E filePath \in env.paths, p \in 0..3 :
    /\ observed[filePath][p].lost > 0
    /\ observed[filePath][p].last > observed[filePath][p].min
    /\ gameByPath[filePath].state.lastStockCounts[p] = observed[filePath][p].last

\* C6 as stated: a summary that _generateGameAnalysis builds reports, for each
\* player of the roster, the stocks that the frames showed the player to lose.
C6_SummaryCountsEveryLoss ==
  \A i \in 1..Len(analyses) :
    analyses[i].built =>
      \A P \in 1..Len(analyses[i].matchData.stockLosses) :
        analyses[i].matchData.stockLosses[P] = analyses[i].shown[P - 1].lost

\* C8 as stated: no event is admitted to the queue of a match whose path is
\* in completedGames.
C8_NothingAdmittedOnceCompleted ==
  [][\A k \in (Len(admitted) + 1)..Len(admitted') :
       admitted'[k].path \notin completedGames]_vars

\* C10: _generateGameAnalysis is called at most once for a match; for a match
\* that became active it has been called exactly when the match is completed,
\* which it is after a file change that showed a game end and after the
\* removal of its file.
C10_SummaryOnce ==
  \A filePath \in env.paths :
    LET calls == Cardinality(Analyses(filePath))
        ended == /\ lastOp.path = filePath
                 /\ \/ lastOp.op = "fileChange" /\ lastOp.gameEnd
                    \/ lastOp.op = "fileRemoval"
    IN /\ calls <= 1
       /\ gameByPath[filePath].state.settings =>
            /\ calls = 1 <=> filePath \in completedGames
            /\ ended => calls = 1

\* The file of a match that became active was removed after its game end had
\* been seen; the summary has been triggered once.
C10_Witness ==
  /\ lastOp.op = "fileRemoval"
  /\ gameByPath[lastOp.path].state.settings
  /\ Cardinality(Analyses(lastOp.path)) = 1
  /\ \E k \in 1..Len(admitted) :
       admitted[k].path = lastOp.path /\ admitted[k].event.type = "gameEnd"

\* Two requests with the same batch content and style.
Identical(i, j) ==
  /\ narrated[i].events = narrated[j].events
  /\ narrated[i].style = narrated[j].style

SameCacheKey(i, j) ==
  generateCacheKey(narrated[i].events[1], narrated[i].style)
    = generateCacheKey(narrated[j].events[1], narrated[j].style)

TemplateTexts(event) ==
  {generateTemplateCommentary(event, variant) : variant \in env.variants}

\* C9: every call of provideLiveCommentary with a non-empty batch that has
\* returned returned a non-empty text; after a throw of the provider the text
\* is one generateTemplateCommentary gives for the first event; without a
\* provider generateCompletion is not invoked and the text is a template text.
C9_AlwaysSomeText ==
  \A i \in 1..Len(narrated) :
    LET call == narrated[i]
    IN (Len(call.events) > 0 /\ ~call.pending) =>
         /\ call.text.kind # "empty"
         /\ call.failed => call.text \in TemplateTexts(call.events[1])
         /\ ~call.llmProvider => ~call.invoked
         /\ (~call.llmProvider /\ call.events[1].type # Unparsable) =>
              \E j \in 1..i : call.text \in TemplateTexts(narrated[j].events[1])

\* The provider threw for one request and completed with nothing for another;
\* both requests have returned.
C9_Witness ==
  \E i, j \in 1..Len(narrated) :
    /\ narrated[i].failed /\ ~narrated[i].pending
    /\ narrated[i].text.kind = "template"
    /\ narrated[j].invoked /\ ~narrated[j].pending /\ ~narrated[j].failed
    /\ ~narrated[j].stored

\* C11 as stated: a match that ends with an empty roster gets a summary, with
\* no statistic other than zero.
C11_SummaryBuiltWithoutStart ==
  \A i \in 1..Len(analyses) :
    Len(analyses[i].matchData.stockLosses) = 0 =>
      /\ analyses[i].built
      /\ \A P \in 1..Len(analyses[i].matchData.damageDealt) :
           analyses[i].matchData.damageDealt[P] = 0

\* C11, amended: when a match ends with an empty roster, _generateGameAnalysis
\* returns without building a summary and without an error: the handler goes
\* on to mark the match completed; a summary is built exactly when the
\* roster is not empty.
C11_NoSummaryWithoutStart ==
  \A i \in 1..Len(analyses) :
    /\ analyses[i].built <=> Len(analyses[i].matchData.stockLosses) > 0
    /\ analyses[i].path \in completedGames

\* A file change has just shown the game end of a match whose settings were
\* never known; the summary was asked for and not built.
C11_Witness ==
  /\ lastOp.op = "fileChange" /\ lastOp.gameEnd
  /\ ~gameByPath[lastOp.path].state.settings
  /\ \E i \in Analyses(lastOp.path) : ~analyses[i].built
  /\ \E k \in 1..Len(admitted) :
       admitted[k].path = lastOp.path /\ admitted[k].event.type = "gameEnd"

\* No batch of the coach holds an event that was pending at a teardown.
PendingAtTeardownNeverHanded ==
  \A i \in 1..Len(narrated) :
    \A m \in 1..Len(narrated[i].events) :
      narrated[i].path # "" => ~admitted[narrated[i].events[m].id].tornDown

\* C12 as stated: once stop() has run the timer is cleared and no queue holds
\* an event, and no event that was pending when stop() ran or when the file
\* of its match was removed is in a batch handed to narration.
C12_TeardownDiscards ==
  /\ ~isMonitoring =>
       /\ ~eventProcessorInterval
       /\ \A i \in 1..Len(pendingEvents) : pendingEvents[i].events = <<>>
  /\ PendingAtTeardownNeverHanded

\* The admissions of a step for a match in a throttle class.
NewlyAdmitted(filePath, class) ==
  {k \in (Len(admitted) + 1)..Len(admitted') :
     admitted'[k].path = filePath /\ admitted'[k].class = class}

\* The threshold of the class has elapsed for the match as the step begins.
Elapsed(filePath, class) ==
  now - gameByPath[filePath].state.lastEventTimes[class] >= threshold(class)

\* The combos that the step records for the match, by their number of moves.
NewlyRecordedCombos(filePath, moves) ==
  {k \in (Len(gameByPath[filePath].state.comboEvents) + 1)
            ..Len(gameByPath'[filePath].state.comboEvents) :
     gameByPath'[filePath].state.comboEvents[k].moves \in moves}

\* C13: throttling is per class.  A step changes the last-admitted time of a
\* class of a match only by admitting an event of that class, which it does
\* only when the threshold of that class has elapsed; and a stock loss, a
\* combo of 4 or more moves and a combo of 2 or 3 moves that the step meets
\* are each admitted when the threshold of their own class has elapsed,
\* whatever else is admitted in the step.
C13_PerClassThrottle ==
  [][\A filePath \in env.paths :
       /\ \A class \in EventTypes :
            /\ gameByPath'[filePath].state.lastEventTimes[class]
                  # gameByPath[filePath].state.lastEventTimes[class]
                => NewlyAdmitted(filePath, class) # {}
            /\ NewlyAdmitted(filePath, class) # {}
                => /\ Elapsed(filePath, class)
                   /\ gameByPath'[filePath].state.lastEventTimes[class] = now
       /\ ((\E p \in 0..3 : observed'[filePath][p].lost > observed[filePath][p].lost)
            /\ Elapsed(filePath, "STOCK_LOSS"))
          => NewlyAdmitted(filePath, "STOCK_LOSS") # {}
       /\ (NewlyRecordedCombos(filePath, SIGNIFICANT_MOVES..100) # {}
            /\ Elapsed(filePath, "SIGNIFICANT_COMBO"))
          => NewlyAdmitted(filePath, "SIGNIFICANT_COMBO") # {}
       /\ (NewlyRecordedCombos(filePath, MIN_COMBO_MOVES..(SIGNIFICANT_MOVES - 1)) # {}
            /\ Elapsed(filePath, "MINOR_COMBO"))
          => NewlyAdmitted(filePath, "MINOR_COMBO") # {}]_vars

\* A stock loss, a 4-hit combo of one player and a 2-hit combo of the other
\* were admitted for one match at the same instant and for the same frame.
C13_Witness ==
  \E i, j, k \in 1..Len(admitted) :
    /\ admitted[i].class = "STOCK_LOSS"
    /\ admitted[j].class = "SIGNIFICANT_COMBO"
    /\ admitted[k].class = "MINOR_COMBO"
    /\ admitted[i].path = admitted[j].path /\ admitted[j].path = admitted[k].path
    /\ admitted[i].time = admitted[j].time /\ admitted[j].time = admitted[k].time
    /\ admitted[j].event.playerIndex # admitted[k].event.playerIndex
    /\ j = i + 1 /\ k = j + 1

\* The pairs of admissions of one step for one match, earlier before later.
EnqueuedInOrder(rank) ==
  \A k, l \in (Len(admitted) + 1)..Len(admitted') :
    (/\ k < l
     /\ admitted'[k].path = admitted'[l].path
     /\ admitted'[k].event.type \in FrameEventTypes
     /\ admitted'[l].event.type \in FrameEventTypes)
    => rank[admitted'[k].event.type] <= rank[admitted'[l].event.type]

StatedRank == [stockLost |-> 1, actionState |-> 2, combo |-> 3, frameUpdate |-> 4]

CodeRank == [actionState |-> 1, frameUpdate |-> 2, stockLost |-> 3, combo |-> 4]

\* C14 as stated: the events enqueued in one file change for one frame are
\* in the order stockLost, actionState, combo, frameUpdate.
C14_StatedOrder == [][EnqueuedInOrder(StatedRank)]_vars

\* C14, amended: the events enqueued in one file change for one frame are in
\* the order actionState, frameUpdate, stockLost, combo.
C14_CodeOrder == [][EnqueuedInOrder(CodeRank)]_vars

\* One file change enqueued an action-state event, a frame update, a stock
\* loss and a combo, one after the other.
C14_Witness ==
  \E k \in 1..Len(admitted) :
    /\ k + 3 <= Len(admitted)
    /\ admitted[k].event.type = "actionState"
    /\ admitted[k + 1].event.type = "frameUpdate"
    /\ admitted[k + 2].event.type = "stockLost"
    /\ admitted[k + 3].event.type = "combo"
    /\ admitted[k].time = admitted[k + 3].time
    /\ admitted[k].event.frame = admitted[k + 2].event.frame

\* The step processes a frame for the match: its number becomes the latest
\* processed one.
ProcessedFrame(filePath) ==
  gameByPath'[filePath].state.latestFrameProcessed
    # gameByPath[filePath].state.latestFrameProcessed

\* The percent (to one decimal) and the stocks that the frame processed by
\* the step holds for every player of the roster.
RosterSnapshot(filePath) ==
  LET roster == gameByPath'[filePath].state.players
      frame == previousFrames'[filePath]
  IN [i \in 1..Len(roster) |->
        [index |-> roster[i].index,
         percent |-> toFixed1(PlayerAt(frame, roster[i].index).percent),
         stocks |-> PlayerAt(frame, roster[i].index).stocksRemaining]]

\* The step enqueues exactly one frame update for the match when due holds
\* and none otherwise; the one it enqueues carries the number of the frame
\* processed and the snapshot of the roster.
HeartbeatWhen(filePath, due) ==
  LET new == NewlyAdmitted(filePath, "FRAME_UPDATE")
  IN IF ProcessedFrame(filePath) /\ due
     THEN /\ Cardinality(new) = 1
          /\ \A k \in new :
               /\ admitted'[k].event.type = "frameUpdate"
               /\ admitted'[k].event.frame
                    = gameByPath'[filePath].state.latestFrameProcessed
               /\ admitted'[k].event.players = RosterSnapshot(filePath)
     ELSE new = {}

C16_CacheBounded == Len(commentaryCache) <= MAX_CACHE_SIZE

\* The step ends a call of _processPendingEvents: a tick that met no await,
\* or the last resumption of one that did.
TickEnds ==
  \/ lastOp'.op = "tick" /\ Len(inFlight') = Len(inFlight)
  \/ lastOp'.op = "resume" /\ Len(inFlight') < Len(inFlight)

NothingPending(pe) == \A i \in 1..Len(pe) : pe[i].events = <<>>

\* C17: at most one interval timer is live at any time, and it is the one
\* this.eventProcessorInterval holds; a timer is created only by an enqueue
\* that finds none, and every enqueue leaves one live; every tick that ends
\* with all queues empty leaves no timer live, and a timer is cleared only by
\* such a tick or by stop().
C17_SingleTimer ==
  [][/\ timers' <= 1
     /\ (timers' = 1) = eventProcessorInterval'
     /\ timers' > timers => timers = 0 /\ Len(admitted') > Len(admitted)
     /\ Len(admitted') > Len(admitted) => timers' = 1
     /\ (TickEnds /\ NothingPending(pendingEvents')) => timers' = 0
     /\ timers' < timers
          => \/ TickEnds /\ NothingPending(pendingEvents')
             \/ lastOp'.op = "stop"]_vars

\* A tick has handed over the last pending events of two matches, of which
\* one queue had needed more than one tick, and has cleared the timer.
C17_Witness ==
  /\ lastOp.op \in {"tick", "resume"}
  /\ timers = 0
  /\ Len(pendingEvents) = 2
  /\ NothingPending(pendingEvents)
  /\ \E i, j \in 1..Len(narrated) :
       i < j /\ narrated[i].path = narrated[j].path

\* C18: whatever combo lists were delivered for a match, no two entries of
\* its comboEvents have the same player and start frame, and no combo of
\* fewer than 2 moves is recorded or enqueued.
C18_ComboRecordedOnce ==
  \A filePath \in env.paths :
    LET comboEvents == gameByPath[filePath].state.comboEvents
    IN /\ \A i, j \in 1..Len(comboEvents) :
            (/\ comboEvents[i].playerIndex = comboEvents[j].playerIndex
             /\ comboEvents[i].startFrame = comboEvents[j].startFrame) => i = j
       /\ \A i \in 1..Len(comboEvents) : comboEvents[i].moves >= MIN_COMBO_MOVES
       /\ \A k \in 1..Len(admitted) :
            admitted[k].event.type = "combo"
              => admitted[k].event.moves >= MIN_COMBO_MOVES

\* The combo begun at frame 10 was recorded with 3 moves, and the list that
\* holds it with 4 moves beside two other combos was delivered later: the
\* other two are recorded, the one of player 1 with the 2 moves it then had.
C18_Witness ==
  \E filePath \in env.paths :
    LET comboEvents == gameByPath[filePath].state.comboEvents
    IN /\ Len(comboEvents) = 3
       /\ comboEvents[1].startFrame = 10 /\ comboEvents[1].moves = 3
       /\ \E i \in 2..3 : comboEvents[i].startFrame = 20 /\ comboEvents[i].moves = 2
       /\ \E i \in 2..3 : comboEvents[i].startFrame = 90

\* The action-state events that the step enqueues.
NewActionStates ==
  {k \in (Len(admitted) + 1)..Len(admitted') : admitted'[k].event.type = "actionState"}

\* The kind of event names a recognised state, or for an aerial landing a
\* recognised pair of previous and new state.
Recognised(subType, prevState, currentState) ==
  CASE subType = "tech" -> currentState \in {TECH_START, TECH_ROLL_LEFT, TECH_ROLL_RIGHT}
    [] subType = "shield" -> currentState = SHIELD
    [] subType = "grab" -> currentState = GRAB
    [] subType = "recovery" -> currentState \in {FIRE_FOX_AIR, UP_B_AIR}
    [] subType = "aerial" -> currentState = FALL /\ prevState \in Aerials
    [] OTHER -> FALSE

\* C19: an action-state event of player p is enqueued for a frame only if
\* the state of p in that frame differs from the state of p in the frame
\* processed before it and is a recognised one (for an aerial landing, the
\* pair is); the NEUTRAL_EXCHANGE time of the match changes only in a step
\* that enqueues such an event.
C19_OnlyRecognisedEdges ==
  [][/\ \A k \in NewActionStates :
          LET filePath == admitted'[k].path
              p == admitted'[k].event.playerIndex
              prev == PlayerAt(previousFrames[filePath], p)
              player == PlayerAt(previousFrames'[filePath], p)
          IN /\ previousFrames[filePath].present
             /\ previousFrames'[filePath].frame = admitted'[k].event.frame
             /\ previousFrames'[filePath].frame > previousFrames[filePath].frame
             /\ prev.actionStateId # player.actionStateId
             /\ Recognised(admitted'[k].event.subType,
                           prev.actionStateId, player.actionStateId)
     /\ \A filePath \in env.paths :
          gameByPath'[filePath].state.lastEventTimes["NEUTRAL_EXCHANGE"]
              # gameByPath[filePath].state.lastEventTimes["NEUTRAL_EXCHANGE"]
            => \E k \in NewActionStates : admitted'[k].path = filePath]_vars

\* An aerial landing of player 0 was enqueued, and in a later frame, once
\* the threshold had passed, a grab of player 1.
C19_Witness ==
  \E i, j \in 1..Len(admitted) :
    /\ i < j
    /\ admitted[i].event.type = "actionState"
    /\ admitted[i].event.subType = "aerial"
    /\ admitted[i].event.playerIndex = 0
    /\ admitted[j].event.type = "actionState"
    /\ admitted[j].event.subType = "grab"
    /\ admitted[j].event.playerIndex = 1

\* C20: a file change that delivers, for a started match, a frame newer than
\* the last processed one in which one player has no entry or no post-frame
\* data marks the frame as processed, keeps it as the previous frame and
\* brings the tracked stock count of every player the frame does hold data
\* for up to date (no error interrupts the handling of the frame).
C20_GapSkipsOnlyThatPlayer ==
  [][\A filePath \in env.paths :
       (/\ lastOp'.op = "fileChange"
        /\ lastOp'.path = filePath
        /\ lastOp'.gap
        /\ gameByPath'[filePath].state.settings
        /\ lastOp'.frame > gameByPath[filePath].state.latestFrameProcessed)
       => /\ gameByPath'[filePath].state.latestFrameProcessed = lastOp'.frame
          /\ previousFrames'[filePath].present
          /\ previousFrames'[filePath].frame = lastOp'.frame
          /\ \A q \in 0..(Len(FoxMarth) - 1) :
               PlayerAt(previousFrames'[filePath], q).kind = "ok"
                 => gameByPath'[filePath].state.lastStockCounts[q]
                      = PlayerAt(previousFrames'[filePath], q).stocksRemaining]_vars

\* floor((damageDealt / stocksLost) / 20) clamped to 1..10, for stocksLost > 0.
ClampedRatio(damageDealt, stocksLost) ==
  LET k == CHOOSE n \in 0..MaxDamage :
             /\ 20 * stocksLost * n <= damageDealt
             /\ damageDealt < 20 * stocksLost * (n + 1)
  IN IF k < 1 THEN 1 ELSE IF k > 10 THEN 10 ELSE k

\* C21 as stated: the score is an integer in 1..10; it is 10 when no stock
\* was lost, 1 when stocks were lost and no damage was dealt, and otherwise
\* floor((damageDealt / stocksLost) / 20) clamped to 1..10.
C21_RatingAsStated ==
  \A i \in 1..Len(analyses) :
    LET r == analyses[i]
    IN /\ r.score \in 1..10
       /\ r.score = IF r.stocksLost = 0 THEN 10
                    ELSE IF r.damageDealt = 0 THEN 1
                    ELSE ClampedRatio(r.damageDealt, r.stocksLost)

\* C21, amended: the score is an integer in 1..10; with no stock lost it is
\* 10 when damage was dealt and 5 when none was; it is 1 when stocks were
\* lost and no damage was dealt, and otherwise
\* floor((damageDealt / stocksLost) / 20) clamped to 1..10.
C21_RatingNeutralWhenIdle ==
  \A i \in 1..Len(analyses) :
    LET r == analyses[i]
    IN /\ r.score \in 1..10
       /\ r.score = IF r.stocksLost = 0 THEN (IF r.damageDealt > 0 THEN 10 ELSE 5)
                    ELSE IF r.damageDealt = 0 THEN 1
                    ELSE ClampedRatio(r.damageDealt, r.stocksLost)

\* A player who dealt no damage and lost no stock was rated 5.
C21_Witness ==
  \E i \in 1..Len(analyses) :
    analyses[i].damageDealt = 0 /\ analyses[i].stocksLost = 0 /\ analyses[i].score = 5

\* Events without the number the history gave them.
StripIds(events) == [i \in 1..Len(events) |-> [events[i] EXCEPT !.id = 0]]

\* What a coach w holds and has done for match filePath: its state, its
\* queue, its previous frame, its membership of the active and completed
\* games, the events admitted for it and the batches released for it.
ViewOf(w, filePath) ==
  LET own == SelectSeq(w.admitted, LAMBDA a : a.path = filePath)
      calls == SelectSeq(w.narrated, LAMBDA c : c.path = filePath)
  IN [game |-> w.gameByPath[filePath],
      queue |-> StripIds(QueueOf(w.pendingEvents, filePath)),
      previousFrame |-> w.previousFrames[filePath],
      active |-> filePath \in w.activeGames,
      completed |-> filePath \in w.completedGames,
      admitted |-> [i \in 1..Len(own) |->
                      [class |-> own[i].class, time |-> own[i].time,
                       event |-> [own[i].event EXCEPT !.id = 0]]],
      batches |-> [i \in 1..Len(calls) |-> StripIds(calls[i].events)]]

\* The coach w had it never seen a match other than filePath; the narration
\* cache is as it is.
Alone(w, filePath) ==
  [w EXCEPT
     !.gameByPath = [p \in DOMAIN @ |-> IF p = filePath THEN @[p] ELSE Untracked],
     !.pendingEvents = SelectSeq(@, LAMBDA q : q.path = filePath),
     !.previousFrames = [p \in DOMAIN @ |-> IF p = filePath THEN @[p] ELSE NoFrame],
     !.activeGames = @ \cap {filePath},
     !.completedGames = @ \cap {filePath},
     !.admitted = SelectSeq(@, LAMBDA a : a.path = filePath),
     !.narrated = SelectSeq(@, LAMBDA c : c.path = filePath),
     !.analyses = SelectSeq(@, LAMBDA a : a.path = filePath)]

RecognisedChange(filePath, p) ==
  LET prev == PlayerAt(previousFrames[filePath], p)
      player == PlayerAt(previousFrames'[filePath], p)
  IN /\ previousFrames[filePath].present
     /\ previousFrames'[filePath].present
     /\ previousFrames'[filePath].frame > previousFrames[filePath].frame
     /\ prev.kind = "ok" /\ player.kind = "ok"
     /\ prev.actionStateId # player.actionStateId
     /\ \E subType \in {"tech", "shield", "grab", "recovery", "aerial"} :
          Recognised(subType, prev.actionStateId, player.actionStateId)

\* The class of a recorded combo.
ComboClass(moves) ==
  IF moves >= SIGNIFICANT_MOVES THEN "SIGNIFICANT_COMBO" ELSE "MINOR_COMBO"

\* C23: of the candidates of one class that one frame brings for a match,
\* at most one is admitted, and it is the first in processing order (the
\* player of lowest index for a change of state or a stock loss, the first
\* new combo of the list for a combo); an event enqueued by a step stems
\* from the frame that step processes and, for a combo, from a combo not
\* recorded before, so a dropped candidate is not enqueued later.
C23_FirstOfClassOnly ==
  [][\A filePath \in env.paths :
       LET new == {k \in (Len(admitted) + 1)..Len(admitted') :
                     admitted'[k].path = filePath}
           st == gameByPath[filePath].state
           st1 == gameByPath'[filePath].state
       IN /\ \A class \in EventTypes : Cardinality(NewlyAdmitted(filePath, class)) <= 1
          /\ \A k \in new :
               LET e == admitted'[k].event
               IN /\ e.type = "actionState"
                     => /\ e.frame = previousFrames'[filePath].frame
                        /\ RecognisedChange(filePath, e.playerIndex)
                        /\ \A p \in 0..(e.playerIndex - 1) : ~RecognisedChange(filePath, p)
                  /\ e.type = "stockLost"
                     => /\ e.frame = previousFrames'[filePath].frame
                        /\ observed'[filePath][e.playerIndex].lost
                             > observed[filePath][e.playerIndex].lost
                        /\ \A p \in 0..(e.playerIndex - 1) :
                             observed'[filePath][p].lost = observed[filePath][p].lost
                  /\ e.type = "combo"
                     => /\ \A i \in 1..Len(st.comboEvents) :
                             ~(/\ st.comboEvents[i].playerIndex = e.playerIndex
                               /\ st.comboEvents[i].startFrame = e.startFrame)
                        /\ \E i \in (Len(st.comboEvents) + 1)..Len(st1.comboEvents) :
                             /\ st1.comboEvents[i].playerIndex = e.playerIndex
                             /\ st1.comboEvents[i].startFrame = e.startFrame
                             /\ \A j \in (Len(st.comboEvents) + 1)..(i - 1) :
                                  ComboClass(st1.comboEvents[j].moves)
                                    # ComboClass(e.moves)]_vars

\* Both players entered shield in one frame and one shield event was
\* enqueued, that of player 0; a 2-hit and a 3-hit combo were recorded from
\* one list and only the 2-hit one was enqueued; the clock has since passed
\* both thresholds.
C23_Witness ==
  \E filePath \in env.paths :
    LET st == gameByPath[filePath].state
        shields == {k \in 1..Len(admitted) : admitted[k].event.subType = "shield"}
        minor == {k \in 1..Len(admitted) : admitted[k].class = "MINOR_COMBO"}
    IN /\ PlayerAt(previousFrames[filePath], 0).actionStateId = SHIELD
       /\ PlayerAt(previousFrames[filePath], 1).actionStateId = SHIELD
       /\ Cardinality(shields) = 1
       /\ \A k \in shields :
            /\ admitted[k].event.playerIndex = 0
            /\ now - admitted[k].time >= NEUTRAL_EXCHANGE_threshold
       /\ Len(st.comboEvents) = 3
       /\ Cardinality(minor) = 1
       /\ \A k \in minor : admitted[k].event.moves = MIN_COMBO_MOVES

\* The batches of two requests hold the same events, each as often in the one
\* as in the other.
Reordered(i, j) ==
  LET s == narrated[i].events
      t == narrated[j].events
  IN /\ Len(s) = Len(t)
     /\ \A k \in 1..Len(s) :
          Cardinality({m \in 1..Len(s) : s[m] = s[k]})
            = Cardinality({m \in 1..Len(t) : t[m] = s[k]})

C30_KeyTellsContentApart ==
  \A j \in 1..Len(narrated) :
    /\ \A i \in 1..Len(narrated) :
         (/\ narrated[i].style = narrated[j].style
          /\ narrated[i].events # narrated[j].events)
         => ~SameCacheKey(i, j)
    /\ narrated[j].fromCache
       => \E i \in narrated[j].settled :
            /\ Identical(i, j)
            /\ narrated[i].stored
            /\ narrated[i].text = narrated[j].text

\* Every event of the class admitted for the match lies at least the
\* threshold of the class back.
SinceLastAdmitted(filePath, class) ==
  \A k \in AdmittedOf(filePath, class) : now - admitted[k].time >= threshold(class)

\* The step hands the match a frame, complete for every player, that is due
\* for a frame update.
HeartbeatArrives(filePath) ==
  /\ lastOp'.op = "fileChange" /\ lastOp'.path = filePath
  /\ ~lastOp'.gap
  /\ gameByPath'[filePath].state.settings
  /\ lastOp'.frame > gameByPath[filePath].state.latestFrameProcessed
  /\ lastOp'.frame % HEARTBEAT_FRAMES = 0

\* C25: a step in which the threshold of a class has not elapsed for a match,
\* so that every attempt of the class is rejected, admits no event of the
\* class and leaves the last-admitted time of every class it does not admit
\* unchanged; and a frame update or a stock loss that arrives at least the
\* threshold of its class after the last event of the class admitted for the
\* match is admitted.
C25_RejectionKeepsTimes ==
  [][\A filePath \in env.paths :
       /\ \A class \in EventTypes :
            ~Elapsed(filePath, class)
            => /\ NewlyAdmitted(filePath, class) = {}
               /\ gameByPath'[filePath].state.lastEventTimes[class]
                    = gameByPath[filePath].state.lastEventTimes[class]
       /\ (HeartbeatArrives(filePath) /\ SinceLastAdmitted(filePath, "FRAME_UPDATE"))
          => NewlyAdmitted(filePath, "FRAME_UPDATE") # {}
       /\ ((\E p \in 0..3 : observed'[filePath][p].lost > observed[filePath][p].lost)
            /\ SinceLastAdmitted(filePath, "STOCK_LOSS"))
          => NewlyAdmitted(filePath, "STOCK_LOSS") # {}]_vars

\* C26: no match is in activeGames and in completedGames at once, and a step
\* adds no match of completedGames to activeGames.
C26_ActiveOrCompleted ==
  /\ [](activeGames \cap completedGames = {})
  /\ [][(activeGames' \ activeGames) \cap completedGames = {}]_vars

\* The stock count that the frame processed by the step shows for the player
\* is the count tracked before the step less stocksLost, and remainingStocks
\* is that count.
RemainingAsObserved(filePath, e) ==
  LET current == PlayerAt(previousFrames'[filePath], e.playerIndex).stocksRemaining
      previousStocks == gameByPath[filePath].state.lastStockCounts[e.playerIndex]
  IN /\ current = previousStocks - e.stocksLost
     /\ e.remainingStocks = current

\* C27: every stock event that a step records and every stockLost event that
\* it enqueues carries as remainingStocks the stock count of the player in
\* the frame that triggered it, the count tracked before less stocksLost.
C27_RemainingStocksCurrent ==
  [][\A filePath \in env.paths :
       LET st == gameByPath[filePath].state
           st1 == gameByPath'[filePath].state
       IN /\ \A k \in NewlyAdmitted(filePath, "STOCK_LOSS") :
               RemainingAsObserved(filePath, admitted'[k].event)
          /\ \A i \in (Len(st.stockEvents) + 1)..Len(st1.stockEvents) :
               RemainingAsObserved(filePath, st1.stockEvents[i])]_vars

\* C28: a summary that a step builds for a match conserves the recorded
\* history of the match: its stockLosses add up to the stocksLost of the
\* recorded stock events and its damageDealt to the damage of the recorded
\* combos, whatever indices the players of the roster occupy in the frames.
C28_SummaryConserves ==
  [][\A i \in (Len(analyses) + 1)..Len(analyses') :
       analyses'[i].built =>
         LET st == gameByPath'[analyses'[i].path].state
         IN /\ SumSeq(analyses'[i].matchData.stockLosses)
                 = SumSeq([k \in 1..Len(st.stockEvents) |-> st.stockEvents[k].stocksLost])
            /\ SumSeq(analyses'[i].matchData.damageDealt)
                 = SumSeq([k \in 1..Len(st.comboEvents) |-> st.comboEvents[k].damage])]_vars

\* Event k of the history is in a batch handed to narration.
Handed(k) ==
  \E i \in 1..Len(narrated) :
    \E m \in 1..Len(narrated[i].events) :
      narrated[i].path # "" /\ narrated[i].events[m].id = k

\* A queue holds an event that no stop() has met.
PendingUnstopped ==
  \E i \in 1..Len(pendingEvents) :
    \E m \in 1..Len(pendingEvents[i].events) :
      ~admitted[pendingEvents[i].events[m].id].tornDown

\* C29: whenever a queue holds an event enqueued since the last stop(), the
\* interval timer is set; and under fair ticks every enqueued event is
\* eventually in a batch handed to narration, unless stop() is called or the
\* file of its match removed while it is pending.
C29_EventuallyNarrated ==
  /\ [](PendingUnstopped => eventProcessorInterval)
  /\ \A k \in 1..(MaxEvents + 1) :
       (Len(admitted) >= k)
         ~> (Len(admitted) >= k /\ (Handed(k) \/ admitted[k].tornDown))

\* Four events were enqueued at once for a match; a first tick handed over a
\* full batch and left the timer set, a second handed over the rest and
\* cleared it; no stop() or removal has met an event.
C29_Witness ==
  /\ ~eventProcessorInterval
  /\ isMonitoring
  /\ Len(admitted) > PENDING_EVENTS_LIMIT
  /\ \A k \in 1..Len(admitted) : Handed(k) /\ ~admitted[k].tornDown
  /\ \E i, j \in 1..Len(narrated) :
       /\ i < j
       /\ narrated[i].path = narrated[j].path
       /\ Len(narrated[i].events) = PENDING_EVENTS_LIMIT
       /\ \A m \in 1..Len(narrated[j].events) :
            admitted[narrated[j].events[m].id].time <= narrated[i].start

=============================================================================
